---- MODULE Spec2Model ----
(***************************************************************************)
(* Model of the OHLCV collector: the session calendar and closed-window    *)
(* classifier (sessions.py), the series store and the reconciliation /     *)
(* back-fill engine (ohlcv_collector.py).                                  *)
(*                                                                         *)
(* Time is counted in minutes from Monday 2024-12-16 00:00 UTC, so that    *)
(* day 0 is a Monday, day 9 is Wednesday 2024-12-25 and day 16 is          *)
(* Wednesday 2025-01-01.                                                   *)
(***************************************************************************)
EXTENDS Integers, Sequences, FiniteSets, TLC

VARIABLES
    \* one call of closed_window and a second call in another zone
    cwPc, cwSym, cwStart, cwEnd, cwTf, cwResult, cwStartAlt, cwEndAlt, cwResultAlt,
    \* one series merged twice with the same bars
    mPc, mKind, mOrig, mBars, mSeries, mAfter1,
    \* the collector: the symbols it is configured with, the range of answers
    \* the provider gives, clock, series files, status map and its mirror,
    \* the driver, the tasks of the current gather and their locals
    symbols, answers,
    now, file, status, statusDisk, drv, queue, batch, next_updates, semaphore, ticks, faults,
    tpc, loaded_df, expected_bars, chunk_start, all_new_data, cyc,
    \* one run of validate_csv: its arguments, the frame read from the file,
    \* the clock and the issues it reports
    vPc, vSymbol, vTimeframe, vDf, vNow, vIssues,
    \* the tasks of the collector's gathers and the concurrency limiter
    lDrv, lTask, lSem, lTicks

cwVars == <<cwPc, cwSym, cwStart, cwEnd, cwTf, cwResult, cwStartAlt, cwEndAlt, cwResultAlt>>

mVars == <<mPc, mKind, mOrig, mBars, mSeries, mAfter1>>

colVars == <<symbols, answers, now, file, status, statusDisk, drv, queue, batch, next_updates, semaphore, ticks, faults,
             tpc, loaded_df, expected_bars, chunk_start, all_new_data, cyc>>

vVars == <<vPc, vSymbol, vTimeframe, vDf, vNow, vIssues>>

lVars == <<lDrv, lTask, lSem, lTicks>>

vars == <<cwVars, mVars, colVars, vVars, lVars>>

----------------------------------------------------------------------------
(* Calendar arithmetic *)

MinPerHour == 60

MinPerDay == 24 * 60

MinPerWeek == 7 * MinPerDay

(* A datetime: the instant it denotes (UTC minutes), the UTC offset of its  *)
(* tzinfo in minutes, and whether it carries a tzinfo at all.  A naive     *)
(* datetime keeps its wall clock in inst and has off = 0.                  *)
Aware(inst, off) == [inst |-> inst, off |-> off, aware |-> TRUE]

Naive(wall) == [inst |-> wall, off |-> 0, aware |-> FALSE]

Wall(dt) == dt.inst + dt.off

(* datetime.replace(tzinfo=timezone.utc): the wall clock is kept *)
ReplaceTzUtc(dt) == Aware(Wall(dt), 0)

(* datetime.astimezone(tz): the instant is kept *)
AsTimezone(dt, off) == [inst |-> dt.inst, off |-> off, aware |-> TRUE]

(* datetime.weekday(): Monday is 0; read from the wall clock *)
Weekday(dt) == (Wall(dt) \div MinPerDay) % 7

(* datetime.date(), as a day number; read from the wall clock *)
DateOf(dt) == Wall(dt) \div MinPerDay

(* dt - timedelta(days=d): wall-clock arithmetic, tzinfo kept *)
MinusDays(dt, d) == [dt EXCEPT !.inst = dt.inst - d * MinPerDay]

PlusDays(dt, d) == [dt EXCEPT !.inst = dt.inst + d * MinPerDay]

(* dt.replace(hour=h, minute=m, second=0, microsecond=0): the wall-clock    *)
(* date is kept, the time of day is replaced, tzinfo kept                  *)
ReplaceTime(dt, h, m) ==
    [dt EXCEPT !.inst = (Wall(dt) \div MinPerDay) * MinPerDay + h * MinPerHour + m - dt.off]

(* the zones a caller may express an instant in, with their UTC offsets in *)
(* minutes; "naive" is a datetime without tzinfo holding the UTC wall clock *)
Zones == {"naive", "utc", "east5", "west5"}

ZoneOffset(z) ==
    CASE z = "east5" -> 300
      [] z = "west5" -> 0 - 300
      [] OTHER -> 0

InZone(dt, z) ==
    IF z = "naive" THEN Naive(dt.inst) ELSE Aware(dt.inst, ZoneOffset(z))

----------------------------------------------------------------------------
(* sessions.py *)

TF_TO_MINUTES ==
    [t \in {"1m", "5m", "15m", "1h", "4h", "1d", "1W", "1mo", "3mo"} |->
        CASE t = "1m" -> 1
          [] t = "5m" -> 5
          [] t = "15m" -> 15
          [] t = "1h" -> 60
          [] t = "4h" -> 240
          [] t = "1d" -> 1440
          [] t = "1W" -> 10080
          [] t = "1mo" -> 43200
          [] t = "3mo" -> 129600]

tf_minutes(timeframe) ==
    IF timeframe \in DOMAIN TF_TO_MINUTES THEN TF_TO_MINUTES[timeframe] ELSE 10^9

(* The instrument keys of the repository that the model draws from:        *)
(* profiled FX, profiled futures, the cash ETF, an FX pair without a       *)
(* profile, crypto, and a key with neither profile nor currencies.         *)
SymbolKeys == {"eurusd", "gold", "copper", "spy", "usdcad", "btc", "eth", "us100"}

(* len(symbol) == 6 and symbol.isalpha() *)
SixLetterAlpha == {"eurusd", "copper", "usdcad"}

UsdBased == {"gold", "silver", "natgas", "spy", "nasdaq", "sp500", "oil", "copper", "btc", "eth"}

(* symbol[:3].upper() and symbol[3:].upper() *)
UpperHalves ==
    [s \in SixLetterAlpha |->
        CASE s = "eurusd" -> {"EUR", "USD"}
          [] s = "copper" -> {"COP", "PER"}
          [] s = "usdcad" -> {"USD", "CAD"}]

(* the always-open instruments given a currency pair *)
get_symbol_currenciesCryptoPair(symbol) ==
    IF symbol \in {"btc", "eth"} THEN {"XBT", "USD"}
    ELSE IF symbol \in SixLetterAlpha THEN UpperHalves[symbol]
    ELSE IF symbol \in UsdBased THEN {"USD"}
    ELSE {}

get_symbol_currencies(symbol) ==
    IF symbol \in SixLetterAlpha THEN UpperHalves[symbol]
    ELSE IF symbol \in UsdBased THEN {"USD"}
    ELSE {}

symbol_map ==
    [s \in {"eurusd", "gold", "copper", "spy"} |->
        CASE s = "eurusd" -> "EURUSD=X"
          [] s = "gold" -> "GC=F"
          [] s = "copper" -> "HG=F"
          [] s = "spy" -> "SPY"]

(* weekday names as parsed through wd_map *)
Fri == 4

Sun == 6

SESSIONS ==
    [y \in {"EURUSD=X", "GC=F", "HG=F", "SPY"} |->
        CASE y = "EURUSD=X" ->
                [timezone |-> 0,
                 weekend |-> <<[wd |-> Fri, h |-> 22, m |-> 0], [wd |-> Sun, h |-> 22, m |-> 0]>>,
                 daily_breaks |-> << <<[h |-> 5, m |-> 0], [h |-> 6, m |-> 0]>> >>]
          [] y \in {"GC=F", "HG=F"} ->
                [timezone |-> 0,
                 weekend |-> <<[wd |-> Fri, h |-> 21, m |-> 0], [wd |-> Sun, h |-> 21, m |-> 0]>>,
                 daily_breaks |-> << <<[h |-> 21, m |-> 0], [h |-> 22, m |-> 0]>> >>]
          [] y = "SPY" ->
                [timezone |-> 0,
                 weekend |-> <<[wd |-> Fri, h |-> 20, m |-> 0], [wd |-> Sun, h |-> 20, m |-> 0]>>,
                 daily_breaks |-> << <<[h |-> 0, m |-> 0], [h |-> 13, m |-> 30]>>,
                                     <<[h |-> 20, m |-> 0], [h |-> 23, m |-> 59]>> >>]]

(* an overlap test that counts touching end points *)
OverlapsClosed(start, end, ws, we) == start.inst <= we.inst /\ end.inst >= ws.inst

(* half-open overlap of [s1, e1) with the window [ws, we), on instants *)
Overlaps(start, end, ws, we) == start.inst < we.inst /\ end.inst > ws.inst

(* ws_local of the weekly closure, lines 83-86: local_start rolled back to  *)
(* the closure's weekday, its time of day replaced by the closure's        *)
WeekendStart(cfg, start) ==
    LET local_start == AsTimezone(start, cfg.timezone)
        from_wd == cfg.weekend[1].wd
        days_back == (Weekday(local_start) - from_wd) % 7
    IN  ReplaceTime(MinusDays(local_start, days_back), cfg.weekend[1].h, cfg.weekend[1].m)

(* the weekly closure of an explicit profile, lines 76-96 *)
WeekendClosed(cfg, start, end) ==
    LET from_wd == cfg.weekend[1].wd
        to_wd == cfg.weekend[2].wd
        ws_local == WeekendStart(cfg, start)
        span == (to_wd - from_wd) % 7
        we_local == ReplaceTime(PlusDays(ws_local, span),
                                cfg.weekend[2].h, cfg.weekend[2].m)
        ws_utc == AsTimezone(ws_local, 0)
        we_utc == AsTimezone(we_local, 0)
    IN  Overlaps(start, end, ws_utc, we_utc)

(* a break skipped already when the timeframe is as long as the break *)
BreakClosedSkipEqual(cfg, brk, start, end, timeframe) ==
    LET local_start == AsTimezone(start, cfg.timezone)
        db_start == ReplaceTime(local_start, brk[1].h, brk[1].m)
        db_end == ReplaceTime(local_start, brk[2].h, brk[2].m)
        raw_minutes == ((brk[2].h * 60 + brk[2].m) - (brk[1].h * 60 + brk[1].m)) % (24 * 60)
        skipped == timeframe # "None" /\ tf_minutes(timeframe) >= raw_minutes
    IN  /\ ~skipped
        /\ Overlaps(start, end, AsTimezone(db_start, 0), AsTimezone(db_end, 0))

(* one daily maintenance break, lines 99-119: TRUE when the break is not    *)
(* skipped for the timeframe and overlaps [start, end)                     *)
BreakClosed(cfg, brk, start, end, timeframe) ==
    LET local_start == AsTimezone(start, cfg.timezone)
        db_start == ReplaceTime(local_start, brk[1].h, brk[1].m)
        db_end == ReplaceTime(local_start, brk[2].h, brk[2].m)
        raw_minutes == ((brk[2].h * 60 + brk[2].m) - (brk[1].h * 60 + brk[1].m)) % (24 * 60)
        skipped == timeframe # "None" /\ tf_minutes(timeframe) > raw_minutes
    IN  /\ ~skipped
        /\ Overlaps(start, end, AsTimezone(db_start, 0), AsTimezone(db_end, 0))

(* the fallback with a closure of one day *)
FxFallbackClosedOneDay(start, end) ==
    LET day == Weekday(start)
        delta == (day - 4) % 7
        fri == MinusDays(start, delta)
        ws == ReplaceTime(fri, 22, 0)
        we == PlusDays(ws, 1)
    IN  Overlaps(start, end, ws, we)

(* ws of the fallback, lines 124-128: start rolled back to Friday, its     *)
(* time of day replaced by 22:00                                           *)
FxFallbackStart(start) ==
    LET day == Weekday(start)
        delta == (day - 4) % 7
        fri == MinusDays(start, delta)
    IN  ReplaceTime(fri, 22, 0)

(* the fallback for a two-currency key without profile, lines 122-132 *)
FxFallbackClosed(start, end) ==
    LET ws == FxFallbackStart(start)
        we == PlusDays(ws, 2)
    IN  Overlaps(start, end, ws, we)

closed_window(sym, start0, end0, timeframe) ==
    LET start == IF start0.aware THEN start0 ELSE ReplaceTzUtc(start0)
        end == IF end0.aware THEN end0 ELSE ReplaceTzUtc(end0)
        currencies == get_symbol_currencies(sym)
        is_fx == Cardinality(currencies) = 2
        hasCfg == sym \in DOMAIN symbol_map /\ symbol_map[sym] \in DOMAIN SESSIONS
    IN  IF hasCfg
        THEN LET cfg == SESSIONS[symbol_map[sym]]
             IN  \/ WeekendClosed(cfg, start, end)
                 \/ \E i \in 1..Len(cfg.daily_breaks) :
                        BreakClosed(cfg, cfg.daily_breaks[i], start, end, timeframe)
        ELSE IF is_fx THEN FxFallbackClosed(start, end)
        ELSE FALSE

(* HOLIDAY_CALENDARS: the dates of the external calendars that fall in the  *)
(* modelled weeks (25 and 26 December 2024, 1 January 2025), as day numbers *)
HOLIDAY_CALENDARS ==
    [c \in {"USD", "GBP", "EUR", "JPY", "CHF", "AUD"} |->
        CASE c = "USD" -> {9, 16}
          [] c = "GBP" -> {9, 10, 16}
          [] c = "EUR" -> {9, 10, 16}
          [] c = "JPY" -> {16}
          [] c = "CHF" -> {9, 10, 16}
          [] c = "AUD" -> {9, 10, 16}]

(* the holiday dates of an instrument: the union over its currencies *)
HolidayDates(sym) ==
    UNION {HOLIDAY_CALENDARS[c] : c \in get_symbol_currencies(sym) \cap DOMAIN HOLIDAY_CALENDARS}

----------------------------------------------------------------------------
(* ohlcv_collector.py: bars, data frames and the series store *)

(* A bar is a row [ts, o, h, l, c, idx]: ts is the UTC instant of its      *)
(* Datetime in minutes, idx the row's label in the frame's index.  The     *)
(* price tuples the provider may deliver:                                  *)
(*   g1, g2  consistent bars with different values                         *)
(*   hl      High < Low                                                    *)
(*   zl      Low = 0                                                       *)
(*   zz      all prices 0 (consistent, but a zero extreme)                 *)
(*   oh      Open > High (inconsistent, High >= Low, no zero extreme)      *)
Prices ==
    [k \in {"g1", "g2", "hl", "zl", "zz", "oh"} |->
        CASE k = "g1" -> [o |-> 2, h |-> 3, l |-> 1, c |-> 2]
          [] k = "g2" -> [o |-> 3, h |-> 4, l |-> 2, c |-> 4]
          [] k = "hl" -> [o |-> 2, h |-> 1, l |-> 3, c |-> 2]
          [] k = "zl" -> [o |-> 1, h |-> 2, l |-> 0, c |-> 1]
          [] k = "zz" -> [o |-> 0, h |-> 0, l |-> 0, c |-> 0]
          [] k = "oh" -> [o |-> 5, h |-> 3, l |-> 1, c |-> 2]]

Bar(ts, k) ==
    [ts |-> ts, o |-> Prices[k].o, h |-> Prices[k].h, l |-> Prices[k].l, c |-> Prices[k].c,
     idx |-> 0]

(* a fresh RangeIndex: what read_csv, reset_index and concat with          *)
(* ignore_index=True give; every other operation keeps the labels          *)
Reindex(df) == [i \in 1..Len(df) |-> [df[i] EXCEPT !.idx = i - 1]]

(* (df['High'] < df['Low']) | (df['High'] == 0) | (df['Low'] == 0) *)
BadRow(r) == r.h < r.l \/ r.h = 0 \/ r.l = 0

(* df[~bad]: the rows that are not bad, order kept *)
DropBad(df) == SelectSeq(df, LAMBDA r : ~BadRow(r))

(* df.drop(bad.index) in _save_data: drop by label, so every row that      *)
(* carries the label of a bad row goes                                     *)
DropBadLabels(df) ==
    LET bad == {df[i].idx : i \in {j \in 1..Len(df) : BadRow(df[j])}}
    IN  SelectSeq(df, LAMBDA r : r.idx \notin bad)

(* df.drop_duplicates(subset=['Datetime'], keep='last'): a row is kept when *)
(* no later row has its Datetime; order kept                               *)
DropDuplicatesLast(df) ==
    LET keepIdx == {i \in 1..Len(df) : \A j \in (i + 1)..Len(df) : df[j].ts # df[i].ts}
        F[i \in 0..Len(df)] ==
            IF i = 0 THEN <<>>
            ELSE IF i \in keepIdx THEN Append(F[i - 1], df[i]) ELSE F[i - 1]
    IN  F[Len(df)]

(* sort_values left out: the rows stay in their input order *)
SortOutcomesUnsorted(df) == {df}

(* df.sort_values('Datetime'): every ascending arrangement of the rows.     *)
(* The default sort is not stable, so rows of equal Datetime may come out  *)
(* in any order; with distinct Datetimes there is one outcome.             *)
SortOutcomes(df) ==
    LET S[idx \in SUBSET (1..Len(df))] ==
            IF idx = {} THEN {<<>>}
            ELSE LET least == {i \in idx : \A j \in idx : df[i].ts <= df[j].ts}
                 IN  UNION {{<<df[i]>> \o rest : rest \in S[idx \ {i}]} : i \in least}
    IN  S[1..Len(df)]

(* sort_values on a frame already free of duplicate Datetimes *)
SortValues(df) == CHOOSE s \in SortOutcomes(df) : TRUE

(* the Datetimes of a frame strictly ascend *)
StrictlyAscending(df) == \A i \in 1..(Len(df) - 1) : df[i].ts < df[i + 1].ts

(* the Datetime values of a frame *)
DatetimesOf(df) == {df[i].ts : i \in 1..Len(df)}

(* new_df[~new_df['Datetime'].isin(existing_df['Datetime'])] *)
NotIn(new_df, existing_df) ==
    SelectSeq(new_df, LAMBDA r : r.ts \notin DatetimesOf(existing_df))

(* A provider frame carries wall-clock Datetimes and a zone: "naive" (no    *)
(* tz), "utc" or a zone with an offset.  The collector localizes a naive   *)
(* frame to UTC and converts an aware one to GMT; rows then hold instants. *)
ToGMT(frame) ==
    [i \in 1..Len(frame.rows) |->
        [frame.rows[i] EXCEPT !.ts = frame.rows[i].ts - ZoneOffset(frame.tz)]]

(* what _save_data writes for a frame: Datetime parsed as UTC, duplicates   *)
(* dropped keeping the last, the labels of bad rows dropped, sorted,       *)
(* formatted to the second in UTC (lossless for the whole-minute instants  *)
(* of the model) and written without the index                             *)
SaveDataRows(df) == Reindex(SortValues(DropBadLabels(DropDuplicatesLast(df))))

(* the merge of _load_symbol_timeframe, lines 483-492, and the rows that    *)
(* _save_data then writes; concat keeps the labels of both frames          *)
LoadMerge(existing_df, df) ==
    SaveDataRows(SortValues(DropDuplicatesLast(existing_df \o df)))

(* the combined frames the back-fill hands to _save_data, lines 687-700,   *)
(* one per outcome of the unstable sort; none when the code saves nothing. *)
(* The chunks are concatenated with ignore_index=True, the result is       *)
(* appended to the existing frame with its labels kept                     *)
BackfillCombined(existing, new_data) ==
    LET new_df == NotIn(Reindex(new_data), existing)
    IN  IF new_data = <<>> \/ new_df = <<>> THEN {}
        ELSE SortOutcomes(existing \o new_df)

(* the series the back-fill merge may write *)
BackfillMerge(existing, new_data) ==
    {SaveDataRows(combined) : combined \in BackfillCombined(existing, new_data)}

----------------------------------------------------------------------------
(* ohlcv_collector.py: the reconciliation cycle and the driver *)

(* the symbols and timeframes of the collector that the model draws from,  *)
(* in the order of self.symbols and TIMEFRAME_MAP                          *)
CollectorSymbols == <<"eurusd", "btc">>

CollectorTimeframes == <<"1m">>

Range(f) == {f[i] : i \in DOMAIN f}

Pairs == Range(CollectorSymbols) \X Range(CollectorTimeframes)

(* EXPECTED_DELTA, in minutes *)
EXPECTED_DELTA ==
    [t \in {"1m", "5m", "15m", "1h", "4h", "1d"} |->
        CASE t = "1m" -> 1
          [] t = "5m" -> 5
          [] t = "15m" -> 15
          [] t = "1h" -> 60
          [] t = "4h" -> 4 * 60
          [] t = "1d" -> 24 * 60]

MAX_BARS == [t \in {"1m", "5m", "15m", "1h", "4h", "1d"} |-> 8000]

(* asyncio.Semaphore(5) *)
SemaphoreWidth == 5

Intraday == {"1m", "5m", "15m", "1h", "4h"}

(* OHLCVCollector._get_symbol_currencies, through forex_map *)
CollectorCurrencies(symbol_key) ==
    CASE symbol_key = "eurusd" -> {"EUR", "USD"}
      [] symbol_key \in UsdBased -> {"USD"}
      [] OTHER -> {}

(* OHLCVCollector._is_holiday(date, symbol_key) *)
IsHolidayNow(t, symbol_key) ==
    \E c \in CollectorCurrencies(symbol_key) \cap DOMAIN HOLIDAY_CALENDARS :
        (t \div MinPerDay) \in HOLIDAY_CALENDARS[c]

(* int(x / y) for a timedelta quotient: truncation toward zero *)
IntQuot(x, y) == IF x >= 0 THEN x \div y ELSE 0 - ((0 - x) \div y)

(* chunk_size = min(expected_bars, MAX_BARS[timeframe]) *)
ChunkSizeCap(expected, timeframe) == MAX_BARS[timeframe]

ChunkSize(expected, timeframe) ==
    IF expected < MAX_BARS[timeframe] THEN expected ELSE MAX_BARS[timeframe]

Absent == [exists |-> FALSE, rows |-> <<>>]

Stored(rows) == [exists |-> TRUE, rows |-> rows]

(* a provider answer: an exception, the provider's no-data exception, or a *)
(* frame of rows with wall-clock Datetimes in zone tz                      *)
Raises == [kind |-> "error", tz |-> "naive", rows |-> <<>>]

PricesMissing == [kind |-> "missing", tz |-> "naive", rows |-> <<>>]

Frame(tz, rows) ==
    [kind |-> "frame", tz |-> tz,
     rows |-> [i \in 1..Len(rows) |->
                [rows[i] EXCEPT !.ts = rows[i].ts + ZoneOffset(tz), !.idx = i - 1]]]

(* The answers the provider may give.  With range "basic" it raises or     *)
(* returns the bars asked for; with range "full" it may also return frames *)
(* that are empty, hold duplicate Datetimes, malformed bars or bars the    *)
(* series already has.                                                     *)

(* the answers of ticker.history in fetch_historical_data at time t *)
HistoryAnswers(range, t, d) ==
    { Raises,
      Frame("west5", <<Bar(t - d, "g2"), Bar(t - 3 * d, "g1")>>),
      Frame("utc", <<Bar(t - d, "hl")>>) }
        \cup (IF range = "full"
              THEN { Frame("utc", <<Bar(t - d, "oh")>>) }
              ELSE {})

(* the answers of ticker.history in fetch_latest_bar at time t *)
LatestAnswers(range, t, d) ==
    { Raises,
      Frame("west5", <<Bar(t - d, "g1"), Bar(t, "g1"), Bar(t + d, "g1")>>) }
        \cup (IF range = "full"
              THEN { Frame("naive", <<>>),
                     Frame("utc", <<Bar(t - d, "g2")>>),
                     Frame("utc", <<Bar(t - d, "oh")>>),
                     Frame("utc", <<Bar(t - d, "zz")>>) }
              ELSE {})

(* the answers of yf.download for the chunk [s, s + n * d) *)
DownloadAnswers(range, s, n, d) ==
    { Raises,
      PricesMissing,
      Frame("west5", <<Bar(s + d, "g1"), Bar(s, "g1")>>) }
        \cup (IF range = "full"
              THEN { Frame("naive", <<>>),
                     Frame("utc", <<Bar(s, "g2"), Bar(s, "g1")>>),
                     Frame("utc", <<Bar(s, "hl"), Bar(s - d, "g2")>>) }
              ELSE {})

(* fetch_historical_data: <<>> stands for None *)
fetch_historical_data(ans) ==
    IF ans.kind # "frame" \/ ans.rows = <<>> THEN <<>> ELSE ToGMT(ans)

(* the OHLC validation of fetch_latest_bar, lines 568-571 *)
InvalidOHLC(r) == r.h < r.l \/ r.h < r.o \/ r.h < r.c \/ r.l > r.o \/ r.l > r.c

(* fetch_latest_bar without the holiday test *)
fetch_latest_barAnyDay(symbol_key, t, ans) ==
    IF ans.kind # "frame" \/ ans.rows = <<>> THEN <<>>
    ELSE LET closed == SelectSeq(ToGMT(ans), LAMBDA r : r.ts <= t)
         IN  IF closed = <<>> THEN <<>>
             ELSE IF InvalidOHLC(closed[Len(closed)]) THEN <<>>
             ELSE <<closed[Len(closed)]>>

(* fetch_latest_bar at time t: <<>> stands for None.  The clock reads some  *)
(* seconds past the minute t, so df['Datetime'] < now keeps the bars up to *)
(* and including the one stamped t                                         *)
fetch_latest_bar(symbol_key, t, ans) ==
    IF IsHolidayNow(t, symbol_key) \/ ans.kind # "frame" \/ ans.rows = <<>> THEN <<>>
    ELSE LET closed == SelectSeq(ToGMT(ans), LAMBDA r : r.ts <= t)
         IN  IF closed = <<>> THEN <<>>
             ELSE IF InvalidOHLC(closed[Len(closed)]) THEN <<>>
             ELSE <<closed[Len(closed)]>>

(* _save_data on df over the file old: the write succeeds, or to_csv fails  *)
(* before or while writing and leaves the old file or a shorter one; torn  *)
(* tells that the file is left neither as it was nor as it was to become   *)
SaveOutcomes(df, old, mayFail) ==
    LET rows == SaveDataRows(df)
    IN  {[ok |-> TRUE, file |-> Stored(rows), torn |-> FALSE]}
            \cup (IF mayFail
                  THEN {[ok |-> FALSE, file |-> old, torn |-> FALSE]}
                        \cup {[ok |-> FALSE, file |-> Stored(SubSeq(rows, 1, k)),
                               torn |-> Stored(SubSeq(rows, 1, k)) # old] :
                                    k \in 0..(Len(rows) - 1)}
                  ELSE {})

(* the end of a task: what the file holds, whether self.status was set,    *)
(* whether the task ended by an exception and whether a write was torn     *)
Outcome(f, touched, raised, torn) ==
    [file |-> f, touched |-> touched, raised |-> raised, torn |-> torn]

(* the test for a stored bar left out *)
AlreadyStoredNever(latest_bar, existing) == FALSE

(* latest_datetime in existing_df['Datetime'].values, lines 720-721 *)
AlreadyStored(latest_bar, existing) == latest_bar[1].ts \in DatetimesOf(existing)

(* the single-bar update, lines 715-744 *)
SingleBarOutcomes(symbol_key, existing, old, t, ans, mayFail) ==
    LET latest_bar == fetch_latest_bar(symbol_key, t, ans)
    IN  IF latest_bar = <<>> THEN {Outcome(old, FALSE, FALSE, FALSE)}
        ELSE IF AlreadyStored(latest_bar, existing) THEN {Outcome(old, FALSE, FALSE, FALSE)}
        ELSE IF DropBad(latest_bar) = <<>> THEN {Outcome(old, FALSE, FALSE, FALSE)}
        ELSE {Outcome(sv.file, sv.ok, ~sv.ok, sv.torn) :
                    sv \in SaveOutcomes(SortValues(Reindex(existing \o latest_bar)), old, mayFail)}

(* the bootstrap of a pair without file, lines 746-762 *)
BootstrapOutcomes(symbol_key, old, t, ans, mayFail) ==
    LET latest_bar == fetch_latest_bar(symbol_key, t, ans)
    IN  IF latest_bar = <<>> \/ DropBad(latest_bar) = <<>> THEN {Outcome(old, FALSE, FALSE, FALSE)}
        ELSE {Outcome(sv.file, sv.ok, ~sv.ok, sv.torn) : sv \in SaveOutcomes(latest_bar, old, mayFail)}

(* _load_symbol_timeframe, lines 474-499 *)
LoadOutcomes(old, ans, mayFail) ==
    LET df == fetch_historical_data(ans)
    IN  IF df = <<>> THEN {Outcome(old, FALSE, FALSE, FALSE)}
        ELSE LET merged == IF old.exists
                           THEN SortValues(DropDuplicatesLast(old.rows \o df))
                           ELSE df
             IN  {Outcome(sv.file, sv.ok, ~sv.ok, sv.torn) : sv \in SaveOutcomes(merged, old, mayFail)}

----------------------------------------------------------------------------
(* data_validator.py: validate_csv *)

INTERVAL_MINUTES ==
    [t \in {"1m", "5m", "15m", "1h", "4h", "1d", "1W", "1mo", "3mo"} |->
        CASE t = "1m" -> 1
          [] t = "5m" -> 5
          [] t = "15m" -> 15
          [] t = "1h" -> 60
          [] t = "4h" -> 240
          [] t = "1d" -> 1440
          [] t = "1W" -> 10080
          [] t = "1mo" -> 43200
          [] t = "3mo" -> 129600]

(* date.date() in HOLIDAY_CALENDARS[currency] for a currency of the symbol *)
is_holiday(date, symbol) == DateOf(date) \in HolidayDates(symbol)

(* the report of a run that found nothing *)
NoIssues ==
    [early |-> "", duplicates |-> 0, invalid_ohlc |-> 0, negative_values |-> 0,
     gaps |-> <<>>, count |-> 0, shown |-> <<>>, stale |-> FALSE]

(* df[df.duplicated(subset=['Datetime'])].shape[0]: the rows that repeat   *)
(* the Datetime of an earlier row                                          *)
Duplicated(df) ==
    Cardinality({i \in 1..Len(df) : \E j \in 1..(i - 1) : df[j].ts = df[i].ts})

(* the rows with High < Low, High < Open, High < Close, Low > Open or      *)
(* Low > Close                                                             *)
InvalidOhlc(df) ==
    Cardinality({i \in 1..Len(df) :
                    \/ df[i].h < df[i].l
                    \/ df[i].h < df[i].o
                    \/ df[i].h < df[i].c
                    \/ df[i].l > df[i].o
                    \/ df[i].l > df[i].c})

NegativeValues(df) ==
    Cardinality({i \in 1..Len(df) :
                    df[i].o < 0 \/ df[i].h < 0 \/ df[i].l < 0 \/ df[i].c < 0})

(* the intraday gap check: the list gaps of (start, end), in the order of  *)
(* the sorted frame; clock is datetime.now(timezone.utc)                   *)
GapCheck(symbol, timeframe, df0, clock) ==
    LET is_crypto == symbol \in {"btc", "eth"}
    IN  IF timeframe \in {"1m", "5m", "15m", "1h", "4h"} /\ ~is_crypto
        THEN LET df == SortValues(df0)
                 interval == INTERVAL_MINUTES[timeframe]
                 max_allowed_gap == interval * (IF timeframe = "1m" THEN 2 ELSE 1)
                 retention_cutoff == clock - 7 * MinPerDay
                 Reported(i) ==
                     LET start == df[i - 1].ts
                         end == df[i].ts
                         d == end - start
                     IN  /\ max_allowed_gap < d
                         /\ d < 3 * MinPerDay
                         /\ ~(timeframe = "1m" /\ end <= retention_cutoff)
                         /\ ~(\/ closed_window(symbol, Aware(start, 0), Aware(end, 0), timeframe)
                              \/ is_holiday(Aware(start, 0), symbol))
                 F[i \in 1..Len(df)] ==
                     IF i = 1 THEN <<>>
                     ELSE IF Reported(i) THEN Append(F[i - 1], <<df[i - 1].ts, df[i].ts>>)
                     ELSE F[i - 1]
             IN  F[Len(df)]
        ELSE <<>>

(* df['Datetime'].max() *)
MaxDatetime(df) == CHOOSE t \in {df[i].ts : i \in 1..Len(df)} : \A i \in 1..Len(df) : df[i].ts <= t

(* the freshness check: whether "Data is ... old" is reported *)
FreshnessCheck(symbol, timeframe, df, clock) ==
    LET last_date == MaxDatetime(df)
        age == clock - last_date
    IN  IF closed_window(symbol, Aware(last_date, 0), Aware(clock, 0), timeframe)
        THEN FALSE
        ELSE \/ timeframe = "1m" /\ age > 60
             \/ timeframe \in {"5m", "15m"} /\ age > 2 * 60
             \/ timeframe = "1h" /\ age > 6 * 60
             \/ timeframe = "4h" /\ age > 12 * 60
             \/ timeframe = "1d" /\ age > 2 * MinPerDay

(* a report that lists every gap *)
ShownAll(gaps) == gaps

(* shown = gaps if count<=5 else gaps[:5], lines 139-140 *)
Shown(gaps) == IF Len(gaps) <= 5 THEN gaps ELSE SubSeq(gaps, 1, 5)

(* validate_csv on the frame df read from an existing file that has the    *)
(* required columns; count and shown are the "Found ... time gaps" line    *)
(* and the gap lines under it                                              *)
validate_csv(df, timeframe, symbol, clock) ==
    IF df = <<>> THEN [NoIssues EXCEPT !.early = "File is empty"]
    ELSE [early |-> "",
          duplicates |-> Duplicated(df),
          invalid_ohlc |-> InvalidOhlc(df),
          negative_values |-> NegativeValues(df),
          gaps |-> GapCheck(symbol, timeframe, df, clock),
          count |-> Len(GapCheck(symbol, timeframe, df, clock)),
          shown |-> Shown(GapCheck(symbol, timeframe, df, clock)),
          stale |-> FreshnessCheck(symbol, timeframe, df, clock)]

----------------------------------------------------------------------------
(* Specifications Spec and SpecFleet: the collector's run - initial load,  *)
(* start-up back-fill, then the schedule loop.  Spec runs a collector of   *)
(* one symbol against the provider's full range of answers, SpecFleet a    *)
(* collector of all the symbols on its first run against the basic range.  *)

(* the variables of a specification that is not running *)
CWIdle ==
    /\ cwPc = "off"
    /\ cwSym = "eurusd"
    /\ cwTf = "None"
    /\ cwStart = Naive(0)
    /\ cwEnd = Naive(0)
    /\ cwResult = FALSE
    /\ cwStartAlt = Naive(0)
    /\ cwEndAlt = Naive(0)
    /\ cwResultAlt = FALSE

MIdle ==
    /\ mPc = "off"
    /\ mKind = "load"
    /\ mOrig = <<>>
    /\ mBars = <<>>
    /\ mSeries = <<>>
    /\ mAfter1 = <<>>

VIdle ==
    /\ vPc = "off"
    /\ vSymbol = "eurusd"
    /\ vTimeframe = "1m"
    /\ vDf = <<>>
    /\ vNow = 0
    /\ vIssues = NoIssues

LIdle ==
    /\ lDrv = "off"
    /\ lTask = <<>>
    /\ lSem = SemaphoreWidth
    /\ lTicks = 0

(* to_csv fails at most MaxFaults times in a run *)
MaxFaults == 1

MayFail == faults < MaxFaults

(* the driver sleeps at most MaxTicks times *)
MaxTicks == 1

(* the bars a stored series may be behind at start-up *)
SmallGap == 3

BigGap == 10000

(* the instants the run may start at: Tuesday 2024-12-24 12:00 and         *)
(* Wednesday 2024-12-25 23:58                                              *)
StartTimes == {8 * MinPerDay + 12 * MinPerHour, 9 * MinPerDay + 23 * MinPerHour + 58}

(* minutes that pass between two passes of the schedule loop *)
ClockSteps == {1, 2}
FleetStart == 8 * MinPerDay + 12 * MinPerHour

Sym(p) == p[1]

Tf(p) == p[2]

Delta(p) == EXPECTED_DELTA[Tf(p)]

(* the files a run may find: none, or a series written by an earlier run   *)
InitialFiles(p, t) ==
    {Absent, Stored(<<Bar(t - SmallGap * Delta(p), "g1")>>)}
        \cup (IF Tf(p) = "1m" THEN {Stored(<<Bar(t - BigGap * Delta(p), "g1")>>)} ELSE {})

(* the tasks of a gather, in creation order *)
TasksFor(syms, tfs) ==
    LET n == Len(syms)
        due == SelectSeq(CollectorTimeframes, LAMBDA t : t \in tfs)
    IN  [i \in 1..(Len(due) * n) |->
            <<syms[((i - 1) % n) + 1], due[((i - 1) \div n) + 1]>>]

LoadTasks(syms) ==
    LET m == Len(CollectorTimeframes)
    IN  [i \in 1..(Len(syms) * m) |->
            <<syms[((i - 1) \div m) + 1], CollectorTimeframes[((i - 1) % m) + 1]>>]

NoCycle ==
    [path |-> "none", N |-> 0, first |-> 0, chunks |-> <<>>, calls |-> 0,
     fetchErr |-> FALSE, aborted |-> FALSE, single |-> FALSE, saved |-> FALSE,
     changed |-> FALSE, unsorted |-> FALSE, torn |-> FALSE, dup |-> FALSE,
     asked |-> FALSE,
     prevAborted |-> FALSE, prevFirst |-> 0]

ColIdle ==
    /\ symbols = <<>>
    /\ answers = "basic"
    /\ now = 0
    /\ file = [p \in Pairs |-> Absent]
    /\ status = [p \in Pairs |-> 0 - 1]
    /\ statusDisk = [p \in Pairs |-> 0 - 1]
    /\ drv = "off"
    /\ queue = <<>>
    /\ batch = {}
    /\ next_updates = [t \in Range(CollectorTimeframes) |-> 0]
    /\ semaphore = 0
    /\ ticks = 0
    /\ faults = 0
    /\ tpc = [p \in Pairs |-> "none"]
    /\ loaded_df = [p \in Pairs |-> <<>>]
    /\ expected_bars = [p \in Pairs |-> 0]
    /\ chunk_start = [p \in Pairs |-> 0]
    /\ all_new_data = [p \in Pairs |-> <<>>]
    /\ cyc = [p \in Pairs |-> NoCycle]

(* the state of run() before initial_load, for the symbols syms, started  *)
(* at one of the times starts; fresh says that the data directory is empty *)
InitRun(syms, range, starts, fresh) ==
    /\ CWIdle
    /\ MIdle
    /\ VIdle
    /\ LIdle
    /\ symbols = syms
    /\ answers = range
    /\ now \in starts
    /\ file \in {f \in [Pairs -> UNION {InitialFiles(p, now) : p \in Pairs}] :
                    \A p \in Pairs :
                        IF Sym(p) \in Range(syms) /\ ~fresh
                        THEN f[p] \in InitialFiles(p, now)
                        ELSE f[p] = Absent}
    /\ status = [p \in Pairs |-> 0 - 1]
    /\ statusDisk = [p \in Pairs |-> 0 - 1]
    /\ drv = "initial_load"
    /\ queue = LoadTasks(syms)
    /\ batch = {}
    /\ next_updates = [t \in Range(CollectorTimeframes) |-> 0]
    /\ semaphore = 0
    /\ ticks = 0
    /\ faults = 0
    /\ tpc = [p \in Pairs |-> "none"]
    /\ loaded_df = [p \in Pairs |-> <<>>]
    /\ expected_bars = [p \in Pairs |-> 0]
    /\ chunk_start = [p \in Pairs |-> 0]
    /\ all_new_data = [p \in Pairs |-> <<>>]
    /\ cyc = [p \in Pairs |-> NoCycle]

(* a collector with one symbol, the provider answering in its full range *)
Init == \E i \in 1..Len(CollectorSymbols) : InitRun(<<CollectorSymbols[i]>>, "full", StartTimes, FALSE)

(* a collector with all the symbols on its first run, the provider         *)
(* answering in its basic range                                            *)
InitFleet == InitRun(CollectorSymbols, "basic", {FleetStart}, TRUE)

taskVars == <<tpc, loaded_df, expected_bars, chunk_start, all_new_data, cyc>>

(* initial_load: one _load_symbol_timeframe task; gather collects its      *)
(* exception, if any (return_exceptions=True)                              *)
InitialLoadTask ==
    /\ drv = "initial_load"
    /\ queue # <<>>
    /\ LET p == Head(queue)
       IN  \E ans \in HistoryAnswers(answers, now, Delta(p)) :
             \E out \in LoadOutcomes(file[p], ans, MayFail) :
                /\ file' = [file EXCEPT ![p] = out.file]
                /\ faults' = IF out.raised THEN faults + 1 ELSE faults
                /\ status' = [status EXCEPT ![p] = IF out.touched THEN now ELSE @]
                /\ cyc' = [cyc EXCEPT ![p].torn = out.torn]
    /\ queue' = Tail(queue)
    /\ UNCHANGED <<symbols, answers, now, statusDisk, drv, batch, next_updates, semaphore, ticks>>
    /\ UNCHANGED <<tpc, loaded_df, expected_bars, chunk_start, all_new_data>>
    /\ UNCHANGED <<cwVars, mVars, vVars, lVars>>

(* run, lines 851-860: _save_status, then the start-up back-fill of 1m *)
InitialLoadDone ==
    /\ drv = "initial_load"
    /\ queue = <<>>
    /\ statusDisk' = status
    /\ drv' = "startup"
    /\ queue' = TasksFor(symbols, {"1m"})
    /\ batch' = Range(TasksFor(symbols, {"1m"}))
    /\ tpc' = [p \in Pairs |-> IF p \in Range(TasksFor(symbols, {"1m"})) THEN "queued" ELSE "none"]
    /\ UNCHANGED <<symbols, answers, now, file, status, next_updates, semaphore, ticks, faults>>
    /\ UNCHANGED <<loaded_df, expected_bars, chunk_start, all_new_data, cyc>>
    /\ UNCHANGED <<cwVars, mVars, vVars, lVars>>

(* a task ends with outcome out; held tells whether it held the semaphore  *)
(* across a suspension, failed counts the saves that failed before the     *)
(* last one                                                                *)
Finish(p, out, held, failed, c) ==
    /\ faults' = faults + failed + (IF out.raised THEN 1 ELSE 0)
    /\ file' = [file EXCEPT ![p] = out.file]
    /\ status' = [status EXCEPT ![p] = IF out.touched THEN now ELSE @]
    /\ tpc' = [tpc EXCEPT ![p] = IF out.raised THEN "raised" ELSE "done"]
    /\ semaphore' = IF held THEN semaphore - 1 ELSE semaphore
    /\ cyc' = [cyc EXCEPT ![p] = [c EXCEPT !.saved = out.touched,
                                            !.changed = out.file # file[p],
                                            !.torn = c.torn \/ out.torn]]
    /\ loaded_df' = [loaded_df EXCEPT ![p] = <<>>]
    /\ expected_bars' = [expected_bars EXCEPT ![p] = 0]
    /\ chunk_start' = [chunk_start EXCEPT ![p] = 0]
    /\ all_new_data' = [all_new_data EXCEPT ![p] = <<>>]

(* whether fetch_latest_bar reaches ticker.history: the holiday test of    *)
(* lines 505-508 returns before the call                                   *)
LatestAsked(p) == ~IsHolidayNow(now, Sym(p))

(* whether ticker.history was called and raised: a holiday returns before  *)
(* the call                                                                *)
LatestFetchFailed(p, ans) == ans.kind = "error" /\ ~IsHolidayNow(now, Sym(p))

(* fetch_latest_bar returned a bar whose Datetime the stored series holds *)
LatestIsStored(p, ans) ==
    LET latest_bar == fetch_latest_bar(Sym(p), now, ans)
    IN  latest_bar # <<>> /\ latest_bar[1].ts \in DatetimesOf(file[p].rows)

(* a back-fill as soon as one bar is expected *)
MissedBarsAny(expected) == expected > 0

(* if expected_bars > 1, line 596 *)
MissedBars(expected) == expected > 1

(* limited_update and update_symbol_timeframe up to the first suspension   *)
BeginUpdate(p) ==
    /\ drv \in {"startup", "batch"}
    /\ queue # <<>>
    /\ p = Head(queue)
    /\ semaphore < SemaphoreWidth
    /\ queue' = Tail(queue)
    /\ LET c0 == [NoCycle EXCEPT !.prevAborted = cyc[p].aborted,
                                 !.prevFirst = cyc[p].first]
       IN  IF ~file[p].exists
           THEN \* no stored series: bootstrap
                \E ans \in LatestAnswers(answers, now, Delta(p)) :
                     \E out \in BootstrapOutcomes(Sym(p), file[p], now, ans, MayFail) :
                        Finish(p, out, FALSE, 0,
                               [c0 EXCEPT !.path = "bootstrap", !.single = TRUE,
                                          !.fetchErr = LatestFetchFailed(p, ans),
                                          !.asked = LatestAsked(p)])
           ELSE IF file[p].rows = <<>>
           THEN \* existing_df['Datetime'].iloc[-1] on a frame without rows
                /\ tpc' = [tpc EXCEPT ![p] = "raised"]
                /\ cyc' = [cyc EXCEPT ![p] = [c0 EXCEPT !.path = "index_error"]]
                /\ UNCHANGED <<file, status, semaphore, faults>>
                /\ UNCHANGED <<loaded_df, expected_bars, chunk_start, all_new_data>>
           ELSE LET last_dt == file[p].rows[Len(file[p].rows)].ts
                    expected == IntQuot(now - last_dt, Delta(p))
                IN  IF MissedBars(expected)
                    THEN /\ tpc' = [tpc EXCEPT ![p] = "loop"]
                         /\ loaded_df' = [loaded_df EXCEPT ![p] = file[p].rows]
                         /\ expected_bars' = [expected_bars EXCEPT ![p] = expected]
                         /\ chunk_start' = [chunk_start EXCEPT ![p] = last_dt + Delta(p)]
                         /\ all_new_data' = [all_new_data EXCEPT ![p] = <<>>]
                         /\ cyc' = [cyc EXCEPT ![p] =
                                        [c0 EXCEPT !.path = "backfill", !.N = expected,
                                                   !.first = last_dt + Delta(p)]]
                         /\ semaphore' = semaphore + 1
                         /\ UNCHANGED <<file, status, faults>>
                    ELSE \E ans \in LatestAnswers(answers, now, Delta(p)) :
                              \E out \in SingleBarOutcomes(Sym(p), file[p].rows, file[p], now, ans, MayFail) :
                                 Finish(p, out, FALSE, 0,
                                        [c0 EXCEPT !.path = "incremental", !.single = TRUE,
                                                   !.dup = LatestIsStored(p, ans),
                                                   !.fetchErr = LatestFetchFailed(p, ans),
                                          !.asked = LatestAsked(p)])
    /\ UNCHANGED <<symbols, answers, now, statusDisk, drv, batch, next_updates, ticks>>
    /\ UNCHANGED <<cwVars, mVars, vVars, lVars>>

NoRaise == \A q \in batch : tpc[q] # "raised"

(* the no-data exception handled like any other exception *)
IsPricesMissingNever(ans) == FALSE

(* "YFPricesMissingError" in e.__class__.__name__, lines 635 and 656 *)
IsPricesMissing(ans) == ans.kind = "missing"

(* one pass of the back-fill loop, lines 605-685; an exception other than  *)
(* the provider's no-data one leaves the loop for the single-bar update    *)
ChunkStep(p) ==
    /\ drv \in {"startup", "batch"}
    /\ tpc[p] = "loop"
    /\ NoRaise
    /\ expected_bars[p] > 0
    /\ LET chunk_size == ChunkSize(expected_bars[p], Tf(p))
           end == chunk_start[p] + chunk_size * Delta(p)
           \* got is what the provider answered, "none" without a request
           entry(how, got) ==
               [start |-> chunk_start[p], size |-> chunk_size, how |-> how, ans |-> got]
           logged(how, got) ==
               [cyc[p] EXCEPT !.chunks = Append(@, entry(how, got)),
                              !.calls = IF got # "none" THEN @ + 1 ELSE @]
           advance ==
               /\ expected_bars' = [expected_bars EXCEPT ![p] = @ - chunk_size]
               /\ chunk_start' = [chunk_start EXCEPT ![p] = end]
               /\ UNCHANGED <<file, status, tpc, semaphore, loaded_df, faults>>
       IN  IF Tf(p) \in Intraday
                /\ closed_window(Sym(p), Aware(chunk_start[p], 0), Aware(end, 0), Tf(p))
           THEN /\ advance
                /\ cyc' = [cyc EXCEPT ![p] = logged("skipped", "none")]
                /\ UNCHANGED all_new_data
           ELSE \E ans \in DownloadAnswers(answers, chunk_start[p], chunk_size, Delta(p)) :
                   CASE IsPricesMissing(ans) ->
                            /\ advance
                            /\ cyc' = [cyc EXCEPT ![p] = logged("nodata", ans.kind)]
                            /\ UNCHANGED all_new_data
                     [] ans.kind \in {"error", "missing"} /\ ~IsPricesMissing(ans) ->
                            \E ans2 \in LatestAnswers(answers, now, Delta(p)) :
                                 \E out \in SingleBarOutcomes(Sym(p), loaded_df[p], file[p], now, ans2, MayFail) :
                                    Finish(p, out, TRUE, 0,
                                           [logged("error", ans.kind) EXCEPT
                                                !.fetchErr = TRUE, !.aborted = TRUE, !.single = TRUE,
                                                !.asked = LatestAsked(p)])
                     [] ans.kind = "frame" ->
                            /\ advance
                            /\ cyc' = [cyc EXCEPT ![p] = logged("fetched", ans.kind)]
                            /\ all_new_data' = [all_new_data EXCEPT ![p] = @ \o DropBad(ToGMT(ans))]
    /\ UNCHANGED <<symbols, answers, now, statusDisk, drv, queue, batch, next_updates, ticks>>
    /\ UNCHANGED <<cwVars, mVars, vVars, lVars>>

(* after the loop, lines 687-744: merge and save what was accumulated and  *)
(* return; with nothing new, or when the save raises, go on to the         *)
(* single-bar update                                                       *)
BackfillFinish(p) ==
    /\ drv \in {"startup", "batch"}
    /\ tpc[p] = "loop"
    /\ NoRaise
    /\ expected_bars[p] <= 0
    /\ LET combos == BackfillCombined(loaded_df[p], all_new_data[p])
           \* the single-bar update over the file old, after failed saves
           single(old, failed, torn) ==
               \E ans2 \in LatestAnswers(answers, now, Delta(p)) :
                 \E out \in SingleBarOutcomes(Sym(p), loaded_df[p], old, now, ans2,
                                              faults + failed < MaxFaults) :
                    Finish(p, out, TRUE, failed,
                           [cyc[p] EXCEPT !.single = TRUE, !.torn = torn,
                                          !.fetchErr = LatestFetchFailed(p, ans2),
                                          !.asked = LatestAsked(p)])
       IN  IF combos = {} THEN single(file[p], 0, FALSE)
           ELSE \E combined \in combos :
                  \E sv \in SaveOutcomes(combined, file[p], MayFail) :
                     IF sv.ok
                     THEN Finish(p, Outcome(sv.file, TRUE, FALSE, FALSE), TRUE, 0,
                                 [cyc[p] EXCEPT !.unsorted = ~StrictlyAscending(all_new_data[p])])
                     ELSE single(sv.file, 1, sv.torn)
    /\ UNCHANGED <<symbols, answers, now, statusDisk, drv, queue, batch, next_updates, ticks>>
    /\ UNCHANGED <<cwVars, mVars, vVars, lVars>>

(* next_update of continuous_update_loop, lines 772-809, in whole minutes  *)
FirstUpdate(t, timeframe) ==
    IF timeframe = "1m" THEN t + 1
    ELSE ((t \div EXPECTED_DELTA[timeframe]) + 1) * EXPECTED_DELTA[timeframe]

(* every task of the gather has been started *)
GatherStarted == queue = <<>>

(* the awaited gather returns: every task was started and has             *)
(* returned                                                                *)
GatherReturned == queue = <<>> /\ \A p \in batch : tpc[p] = "done"

(* every task of the gather returned: _save_status, lines 839 and 861 *)
GatherDone ==
    /\ drv \in {"startup", "batch"}
    /\ GatherReturned
    /\ statusDisk' = status
    /\ tpc' = [p \in Pairs |-> "none"]
    /\ batch' = {}
    /\ IF drv = "startup"
       THEN /\ drv' = "loop"
            /\ next_updates' = [t \in Range(CollectorTimeframes) |-> FirstUpdate(now, t)]
       ELSE /\ drv' = "sleep"
            /\ UNCHANGED next_updates
    /\ cyc' = [p \in Pairs |-> [NoCycle EXCEPT !.aborted = cyc[p].aborted,
                                               !.first = cyc[p].first]]
    /\ UNCHANGED <<symbols, answers, now, file, status, queue, semaphore, ticks, faults>>
    /\ UNCHANGED <<loaded_df, expected_bars, chunk_start, all_new_data>>
    /\ UNCHANGED <<cwVars, mVars, vVars, lVars>>

(* a task of the gather raised: the exception leaves gather and the loop,  *)
(* run logs it as fatal and stops; the suspended tasks are cancelled       *)
GatherRaise ==
    /\ drv \in {"startup", "batch"}
    /\ queue = <<>>
    /\ \E p \in batch : tpc[p] = "raised"
    /\ drv' = "fatal"
    /\ tpc' = [p \in Pairs |-> IF tpc[p] = "loop" THEN "cancelled" ELSE tpc[p]]
    /\ semaphore' = 0
    /\ UNCHANGED <<symbols, answers, now, file, status, statusDisk, queue, batch, next_updates, ticks, faults>>
    /\ UNCHANGED <<loaded_df, expected_bars, chunk_start, all_new_data, cyc>>
    /\ UNCHANGED <<cwVars, mVars, vVars, lVars>>

(* a schedule loop without the weekend skip *)
IsWeekendNever(t) == FALSE

(* now.weekday() >= 5, line 823 *)
IsWeekend(t) == ((t \div MinPerDay) % 7) >= 5

(* one pass of the schedule loop, lines 812-838 *)
LoopTick ==
    /\ drv = "loop"
    /\ LET is_weekend == IsWeekend(now)
           due == {t \in Range(CollectorTimeframes) :
                      now >= next_updates[t] /\ ~(is_weekend /\ t \in Intraday)}
       IN  /\ queue' = TasksFor(symbols, due)
           /\ batch' = Range(TasksFor(symbols, due))
           /\ tpc' = [p \in Pairs |-> IF p \in Range(TasksFor(symbols, due)) THEN "queued" ELSE "none"]
           /\ next_updates' = [t \in Range(CollectorTimeframes) |->
                                  IF t \in due THEN next_updates[t] + EXPECTED_DELTA[t]
                                  ELSE next_updates[t]]
           /\ drv' = IF due = {} THEN "sleep" ELSE "batch"
    /\ UNCHANGED <<symbols, answers, now, file, status, statusDisk, semaphore, ticks, faults>>
    /\ UNCHANGED <<loaded_df, expected_bars, chunk_start, all_new_data, cyc>>
    /\ UNCHANGED <<cwVars, mVars, vVars, lVars>>

(* asyncio.sleep(10) and whatever else delays the next pass *)
Sleep ==
    /\ drv = "sleep"
    /\ ticks < MaxTicks
    /\ \E step \in ClockSteps : now' = now + step
    /\ ticks' = ticks + 1
    /\ drv' = "loop"
    /\ UNCHANGED <<symbols, answers, file, status, statusDisk, queue, batch, next_updates, semaphore, faults>>
    /\ UNCHANGED taskVars
    /\ UNCHANGED <<cwVars, mVars, vVars, lVars>>

Next ==
    \/ InitialLoadTask
    \/ InitialLoadDone
    \/ \E p \in Pairs : BeginUpdate(p)
    \/ \E p \in Pairs : ChunkStep(p)
    \/ \E p \in Pairs : BackfillFinish(p)
    \/ GatherDone
    \/ GatherRaise
    \/ LoopTick
    \/ Sleep

Spec == Init /\ [][Next]_vars

SpecFleet == InitFleet /\ [][Next]_vars

(* the first run of a collector with all the symbols, started on a trading *)
(* day or on a Saturday: Tuesday 2024-12-24 12:00, Saturday 2024-12-28     *)
(* 12:00                                                                   *)
DriverStarts == {FleetStart, 12 * MinPerDay + 12 * MinPerHour}

InitDriver == InitRun(CollectorSymbols, "basic", DriverStarts, TRUE)

SpecDriver == InitDriver /\ [][Next]_vars

----------------------------------------------------------------------------
(* Specification SpecCW: closed_window applied to bounded inputs, then      *)
(* applied again to the same instants expressed in another zone.           *)

(* the first sampled instant: Monday of week 1, 00:00 UTC *)
CWFirst == MinPerWeek

(* start instants are sampled every hour over CWHours hours, plus a few    *)
(* instants off the hour (13:30 and 23:59 are session times of SPY)        *)
CWHours == 168

CWStarts ==
    {CWFirst + 60 * k : k \in 0..CWHours}
        \cup {CWFirst + 60 * k + 30 : k \in {13, 37}}
        \cup {CWFirst + 60 * k + 59 : k \in {23}}

CWDurations == {1, 60, 120, 1440, 2 * 1440, 3 * 1440}

CWTimeframes == {"1m", "1h", "4h", "1d", "None"}

InitCW ==
    /\ MIdle
    /\ ColIdle
    /\ VIdle
    /\ LIdle
    /\ cwPc = "input"
    /\ cwSym \in SymbolKeys
    /\ cwTf \in CWTimeframes
    /\ \E s \in CWStarts, d \in CWDurations, aw \in BOOLEAN :
          /\ cwStart = (IF aw THEN Aware(s, 0) ELSE Naive(s))
          /\ cwEnd = Aware(s + d, 0)
    /\ cwResult = FALSE
    /\ cwStartAlt = cwStart
    /\ cwEndAlt = cwEnd
    /\ cwResultAlt = FALSE

CWCall ==
    /\ cwPc = "input"
    /\ cwResult' = closed_window(cwSym, cwStart, cwEnd, cwTf)
    /\ cwPc' = "called"
    /\ UNCHANGED <<cwSym, cwStart, cwEnd, cwTf, cwStartAlt, cwEndAlt, cwResultAlt>>
    /\ UNCHANGED <<mVars, colVars, vVars, lVars>>

CWCallAlt ==
    /\ cwPc = "called"
    /\ \E zs \in Zones, ze \in {"utc", "naive"} :
          /\ cwStartAlt' = InZone(cwStart, zs)
          /\ cwEndAlt' = InZone(cwEnd, ze)
          /\ cwResultAlt' = closed_window(cwSym, InZone(cwStart, zs), InZone(cwEnd, ze), cwTf)
    /\ cwPc' = "both"
    /\ UNCHANGED <<cwSym, cwStart, cwEnd, cwTf, cwResult>>
    /\ UNCHANGED <<mVars, colVars, vVars, lVars>>

NextCW == CWCall \/ CWCallAlt

SpecCW == InitCW /\ [][NextCW]_vars

----------------------------------------------------------------------------
(* Specification SpecMerge: a stored series and a bar set from bounded     *)
(* sets; the bar set is merged into the series, then merged again.         *)

(* Datetimes of the merged bars are 1..MMaxTs *)
MMaxTs == 3

(* a fetched bar set has at most MMaxLen rows *)
MMaxLen == 2

MBarSet == {Bar(t, k) : t \in 1..MMaxTs, k \in {"g1", "g2", "hl", "oh"}}

MFrames == UNION {[1..n -> MBarSet] : n \in 0..MMaxLen}

(* the series a file can hold: whatever _save_data writes for some frame *)
MStored == {SaveDataRows(f) : f \in MFrames}

(* the series after merging bars; kind is the merging path *)
MergeOutcomes(kind, series, bars) ==
    IF kind = "load" THEN {LoadMerge(series, Reindex(bars))}
    ELSE LET saved == BackfillMerge(series, DropBad(bars))
         IN  IF saved = {} THEN {series} ELSE saved

InitMerge ==
    /\ CWIdle
    /\ ColIdle
    /\ VIdle
    /\ LIdle
    /\ mPc = "start"
    /\ mKind \in {"load", "backfill"}
    /\ mOrig \in MStored
    /\ mBars \in MFrames
    /\ mSeries = mOrig
    /\ mAfter1 = <<>>

MergeOnce ==
    /\ mPc = "start"
    /\ \E out \in MergeOutcomes(mKind, mSeries, mBars) :
          /\ mSeries' = out
          /\ mAfter1' = out
    /\ mPc' = "once"
    /\ UNCHANGED <<mKind, mOrig, mBars>>
    /\ UNCHANGED <<cwVars, colVars, vVars, lVars>>

MergeAgain ==
    /\ mPc = "once"
    /\ \E out \in MergeOutcomes(mKind, mSeries, mBars) : mSeries' = out
    /\ mPc' = "twice"
    /\ UNCHANGED <<mKind, mOrig, mBars, mAfter1>>
    /\ UNCHANGED <<cwVars, colVars, vVars, lVars>>

NextMerge == MergeOnce \/ MergeAgain

SpecMerge == InitMerge /\ [][NextMerge]_vars

----------------------------------------------------------------------------
(* Specification SpecVal: validate_csv on bounded series *)

VSymbols == {"eurusd", "spy", "btc", "us100"}

VTimeframes == {"1m", "5m", "1h", "1d"}

(* the first bar of the series: Monday 2024-12-23 00:00 and 04:00,         *)
(* Wednesday 2024-12-25 22:00, Friday 2024-12-27 21:00                     *)
VBases ==
    {7 * MinPerDay, 7 * MinPerDay + 4 * MinPerHour, 9 * MinPerDay + 22 * MinPerHour,
     11 * MinPerDay + 21 * MinPerHour}

(* the rows of the file as minutes after the first bar, for a timeframe of *)
(* iv minutes: on the grid around a hole, unsorted, with a repeated        *)
(* Datetime, with holes of four hours and of about three days, with six    *)
(* holes, and without rows                                                 *)
VOffsets(iv) ==
    {<<0, iv, 5 * iv>>, <<0, 2 * iv, 5 * iv>>, <<0, 5 * iv, iv>>, <<0, 0, iv>>,
     <<0, 4 * MinPerHour>>, <<0, 3 * MinPerDay>>, <<0, 3 * MinPerDay - 1>>, <<>>,
     <<0, 3 * iv, 6 * iv, 9 * iv, 12 * iv, 15 * iv, 18 * iv>>}

(* the oldest series is VStaleDays days behind the clock *)
VStaleDays == 14

(* minutes from the latest bar to the clock *)
VAges == {30, 90, 400, 3000, 7 * MinPerDay + 10, VStaleDays * MinPerDay}

(* pd.read_csv of a file with the given offsets; the last row has prices k *)
VFrame(base, offs, k) ==
    Reindex([i \in 1..Len(offs) |->
                Bar(base + offs[i], IF i = Len(offs) THEN k ELSE "g1")])

InitVal ==
    /\ CWIdle
    /\ MIdle
    /\ ColIdle
    /\ LIdle
    /\ vPc = "input"
    /\ vSymbol \in VSymbols
    /\ vTimeframe \in VTimeframes
    /\ \E base \in VBases, offs \in VOffsets(INTERVAL_MINUTES[vTimeframe]),
          k \in {"g1", "oh"}, age \in VAges :
          /\ vDf = VFrame(base, offs, k)
          /\ vNow = (IF offs = <<>> THEN base ELSE MaxDatetime(VFrame(base, offs, k))) + age
    /\ vIssues = NoIssues

Validate ==
    /\ vPc = "input"
    /\ vIssues' = validate_csv(vDf, vTimeframe, vSymbol, vNow)
    /\ vPc' = "done"
    /\ UNCHANGED <<vSymbol, vTimeframe, vDf, vNow>>
    /\ UNCHANGED <<cwVars, mVars, colVars, lVars>>

NextVal == Validate

SpecVal == InitVal /\ [][NextVal]_vars

----------------------------------------------------------------------------
(* Specification SpecLimiter: the tasks of the collector's gathers and the *)
(* semaphore of limited_update.  The provider calls and the file writes    *)
(* are synchronous, so a task leaves the event loop only where it waits    *)
(* for the semaphore or sleeps between two chunks of a back-fill.          *)

(* the (symbol, timeframe) tasks of one gather *)
LTasks == 7

(* the passes of the schedule loop that follow the first *)
LMaxTicks == 1

(* acquire never waits *)
AcquireUnbounded(value) == TRUE

(* async with self.semaphore: acquire goes through while the counter of    *)
(* the semaphore is above zero                                             *)
CanAcquire(value) == value > 0

(* no task is executing on the event loop *)
LoopFree == \A t \in DOMAIN lTask : lTask[t] \notin {"loading", "running", "resumed"}

(* the tasks that have begun their reconciliation and not ended it *)
InFlight == {t \in DOMAIN lTask : lTask[t] \in {"loading", "running", "sleeping", "resumed"}}

InitLimiter ==
    /\ CWIdle
    /\ MIdle
    /\ ColIdle
    /\ VIdle
    /\ lDrv = "initial"
    /\ lTask = [t \in 1..LTasks |-> "new"]
    /\ lSem = SemaphoreWidth
    /\ lTicks = 0

(* the event loop starts the tasks of a gather in the order they were made: *)
(* _load_symbol_timeframe runs at once, limited_update acquires or waits   *)
LStart(t) ==
    /\ lDrv \in {"initial", "startup", "loop"}
    /\ lTask[t] = "new"
    /\ \A u \in 1..(t - 1) : lTask[u] # "new"
    /\ LoopFree
    /\ IF lDrv = "initial"
       THEN /\ lTask' = [lTask EXCEPT ![t] = "loading"]
            /\ UNCHANGED lSem
       ELSE IF CanAcquire(lSem)
       THEN /\ lTask' = [lTask EXCEPT ![t] = "running"]
            /\ lSem' = lSem - 1
       ELSE /\ lTask' = [lTask EXCEPT ![t] = "waiting"]
            /\ UNCHANGED lSem
    /\ UNCHANGED <<lDrv, lTicks>>
    /\ UNCHANGED <<cwVars, mVars, colVars, vVars>>

(* _load_symbol_timeframe returns or raises *)
LLoadEnd(t) ==
    /\ lTask[t] = "loading"
    /\ lTask' = [lTask EXCEPT ![t] = "done"]
    /\ UNCHANGED <<lDrv, lSem, lTicks>>
    /\ UNCHANGED <<cwVars, mVars, colVars, vVars>>

(* await asyncio.sleep between two chunks; a task sleeps once at most *)
LYield(t) ==
    /\ lTask[t] = "running"
    /\ lTask' = [lTask EXCEPT ![t] = "sleeping"]
    /\ UNCHANGED <<lDrv, lSem, lTicks>>
    /\ UNCHANGED <<cwVars, mVars, colVars, vVars>>

LResume(t) ==
    /\ lTask[t] = "sleeping"
    /\ LoopFree
    /\ lTask' = [lTask EXCEPT ![t] = "resumed"]
    /\ UNCHANGED <<lDrv, lSem, lTicks>>
    /\ UNCHANGED <<cwVars, mVars, colVars, vVars>>

(* update_symbol_timeframe returns: async with releases *)
LRelease(t) ==
    /\ lTask[t] \in {"running", "resumed"}
    /\ lTask' = [lTask EXCEPT ![t] = "done"]
    /\ lSem' = lSem + 1
    /\ UNCHANGED <<lDrv, lTicks>>
    /\ UNCHANGED <<cwVars, mVars, colVars, vVars>>

(* update_symbol_timeframe raises: async with releases, and the task ends *)
(* with the exception                                                      *)
LRaise(t) ==
    /\ lDrv \in {"startup", "loop"}
    /\ lTask[t] \in {"running", "resumed"}
    /\ lTask' = [lTask EXCEPT ![t] = "raised"]
    /\ lSem' = lSem + 1
    /\ UNCHANGED <<lDrv, lTicks>>
    /\ UNCHANGED <<cwVars, mVars, colVars, vVars>>

(* the longest-waiting task is woken once the semaphore is released *)
LWake(t) ==
    /\ lTask[t] = "waiting"
    /\ \A u \in 1..(t - 1) : lTask[u] # "waiting"
    /\ LoopFree
    /\ CanAcquire(lSem)
    /\ lTask' = [lTask EXCEPT ![t] = "running"]
    /\ lSem' = lSem - 1
    /\ UNCHANGED <<lDrv, lTicks>>
    /\ UNCHANGED <<cwVars, mVars, colVars, vVars>>

(* the gather returns: run goes from the initial load to the start-up      *)
(* back-fill and on to the schedule loop, which gathers again              *)
LGatherDone ==
    /\ \A t \in DOMAIN lTask : lTask[t] = "done"
    /\ \/ /\ lDrv = "initial"
          /\ lDrv' = "startup"
          /\ UNCHANGED lTicks
       \/ /\ lDrv = "startup"
          /\ lDrv' = "loop"
          /\ UNCHANGED lTicks
       \/ /\ lDrv = "loop"
          /\ lTicks < LMaxTicks
          /\ lTicks' = lTicks + 1
          /\ UNCHANGED lDrv
    /\ lTask' = [t \in DOMAIN lTask |-> "new"]
    /\ UNCHANGED lSem
    /\ UNCHANGED <<cwVars, mVars, colVars, vVars>>

(* a gather of limited_update tasks passes the first exception on to run,  *)
(* which ends (lines 837, 860, 869-875); the tasks still pending are       *)
(* cancelled when the event loop closes, and a sleeping one releases on    *)
(* its way out.  The tasks were put on the event loop before the gather's  *)
(* callback, and a release schedules the wake-up of a waiter before the    *)
(* task ends, so these run first.                                          *)
LGatherRaise ==
    /\ lDrv \in {"startup", "loop"}
    /\ \E t \in DOMAIN lTask : lTask[t] = "raised"
    /\ LoopFree
    /\ \A t \in DOMAIN lTask : lTask[t] # "new"
    /\ ~(CanAcquire(lSem) /\ \E t \in DOMAIN lTask : lTask[t] = "waiting")
    /\ lDrv' = "fatal"
    /\ lTask' = [t \in DOMAIN lTask |->
                    IF lTask[t] \in {"waiting", "sleeping"} THEN "cancelled" ELSE lTask[t]]
    /\ lSem' = lSem + Cardinality({t \in DOMAIN lTask : lTask[t] = "sleeping"})
    /\ UNCHANGED lTicks
    /\ UNCHANGED <<cwVars, mVars, colVars, vVars>>

NextLimiter ==
    \/ \E t \in DOMAIN lTask :
          LStart(t) \/ LLoadEnd(t) \/ LYield(t) \/ LResume(t) \/ LRelease(t) \/ LRaise(t) \/ LWake(t)
    \/ LGatherDone
    \/ LGatherRaise

SpecLimiter == InitLimiter /\ [][NextLimiter]_vars

----------------------------------------------------------------------------
(* Properties of closed_window, checked under SpecCW *)

(* the instant t (UTC minutes) lies in the recurring weekly closure that    *)
(* starts at weekday wd, h:m and lasts len minutes                         *)
InWeekly(t, wd, h, m, len) ==
    ((t - (wd * MinPerDay + h * MinPerHour + m)) % MinPerWeek) < len

(* the instant t lies in scheduled unavailability of sym for the timeframe: *)
(* the weekly closure, a daily break that the timeframe does not skip, or  *)
(* a holiday date of the instrument                                        *)
ScheduledUnavailable(sym, t, timeframe) ==
    \/ (t \div MinPerDay) \in HolidayDates(sym)
    \/ /\ sym \in DOMAIN symbol_map
       /\ LET cfg == SESSIONS[symbol_map[sym]]
              w1 == cfg.weekend[1]
              w2 == cfg.weekend[2]
              len == ((w2.wd - w1.wd) % 7) * MinPerDay
                        + (w2.h * MinPerHour + w2.m) - (w1.h * MinPerHour + w1.m)
          IN  \/ InWeekly(t, w1.wd, w1.h, w1.m, len)
              \/ \E i \in 1..Len(cfg.daily_breaks) :
                    LET b == cfg.daily_breaks[i]
                        b0 == b[1].h * MinPerHour + b[1].m
                        b1 == b[2].h * MinPerHour + b[2].m
                    IN  /\ (timeframe = "None" \/ tf_minutes(timeframe) <= b1 - b0)
                        /\ b0 <= t % MinPerDay
                        /\ t % MinPerDay < b1
    \/ /\ sym \notin DOMAIN symbol_map
       /\ Cardinality(get_symbol_currencies(sym)) = 2
       /\ InWeekly(t, Fri, 22, 0, 2 * MinPerDay)

(* C1: closed_window returns true only if every instant of [start, end)    *)
(* lies inside scheduled unavailability of the instrument; an interval     *)
(* holding an instant at which the market is scheduled open gives false.   *)
C1_ClosedOnlyIfFullyUnavailable ==
    (cwPc # "input" /\ cwResult) =>
        \A t \in cwStart.inst .. (cwEnd.inst - 1) : ScheduledUnavailable(cwSym, t, cwTf)

(* C9: two calls whose start and end denote the same instants, expressed   *)
(* in different zones or as naive UTC, return the same result.             *)
C9_ZoneInvariant ==
    cwPc = "both" => cwResultAlt = cwResult

(* C10: for an instrument that is not always-open, closed_window reports   *)
(* closed whenever a holiday date of its currency exposure falls strictly  *)
(* between the dates of start and end.                                     *)
C10_HolidayBetweenIsClosed ==
    ( /\ cwPc # "input"
      /\ cwSym \notin {"btc", "eth"}
      /\ \E d \in HolidayDates(cwSym) : DateOf(cwStart) < d /\ d < DateOf(cwEnd) )
        => cwResult

(* the two callers of closed_window: the gap check of validate_csv,        *)
(* data_validator.py line 133, and the back-fill loop, ohlcv_collector.py  *)
(* line 612, on the call recorded in cwResult                              *)
GapTreatsClosed == cwResult \/ DateOf(cwStart) \in HolidayDates(cwSym)

BackfillTreatsClosed == cwTf \in Intraday /\ cwResult

(* C11: for every instrument, interval and timeframe the gap check of the  *)
(* validator and the back-fill loop agree on whether the interval is       *)
(* treated as closed.                                                      *)
C11_SameClassification ==
    (cwPc # "input" /\ cwTf \in Intraday /\ cwSym \notin {"btc", "eth"}) =>
        (GapTreatsClosed = BackfillTreatsClosed)

(* minutes from the instant t back to the latest start of the weekly       *)
(* closure that begins at weekday wd, h:m                                  *)
SinceWeekly(t, wd, h, m) == (t - (wd * MinPerDay + h * MinPerHour + m)) % MinPerWeek

(* every instant of [s, e) lies in one weekly closure of len minutes *)
WithinWeekly(s, e, wd, h, m, len) ==
    SinceWeekly(s, wd, h, m) < len /\ e - s <= len - SinceWeekly(s, wd, h, m)

(* some instant of [s, e) lies in a weekly closure of len minutes *)
TouchesWeekly(s, e, wd, h, m, len) ==
    SinceWeekly(s, wd, h, m) < len \/ e - s > MinPerWeek - SinceWeekly(s, wd, h, m)

(* a key with two currencies and no session profile *)
FallbackKey(sym) ==
    sym \notin DOMAIN symbol_map /\ Cardinality(get_symbol_currencies(sym)) = 2

(* C12: for a two-currency instrument without profile an interval within   *)
(* Friday 22:00 UTC to Sunday 22:00 UTC of one weekend is closed, and an   *)
(* interval entirely between Sunday 22:00 UTC and the following Friday     *)
(* 22:00 UTC is not closed.                                                *)
C12_FallbackWeekend ==
    (cwPc # "input" /\ FallbackKey(cwSym)) =>
        /\ WithinWeekly(cwStart.inst, cwEnd.inst, Fri, 22, 0, 2 * MinPerDay) => cwResult
        /\ ~TouchesWeekly(cwStart.inst, cwEnd.inst, Fri, 22, 0, 2 * MinPerDay) => ~cwResult

(* usdcad, Friday 23:00 UTC to Saturday 23:00 UTC, reported closed *)
C12_Witness ==
    /\ cwPc = "called"
    /\ cwSym = "usdcad"
    /\ cwStart.inst = CWFirst + 4 * MinPerDay + 23 * MinPerHour
    /\ cwEnd.inst = cwStart.inst + MinPerDay
    /\ cwResult

(* C13: for an always-open instrument (btc, eth) closed_window returns     *)
(* false for every interval and timeframe, in whatever zone the interval   *)
(* is expressed.                                                           *)
C13_AlwaysOpenNeverClosed ==
    cwSym \in {"btc", "eth"} =>
        /\ cwPc # "input" => ~cwResult
        /\ cwPc = "both" => ~cwResultAlt

(* eth over a whole weekend day and btc over the holiday of 2024-12-25,    *)
(* both reported open                                                      *)
C13_Witness ==
    /\ cwPc = "both"
    /\ ~cwResult
    /\ \/ /\ cwSym = "eth"
          /\ WithinWeekly(cwStart.inst, cwEnd.inst, Fri, 22, 0, 2 * MinPerDay)
          /\ cwEnd.inst - cwStart.inst = MinPerDay
       \/ /\ cwSym = "btc"
          /\ DateOf(cwStart) = 9

(* the weekly closure of a profile: its start and its length in minutes *)
WeeklyLen(cfg) ==
    ((cfg.weekend[2].wd - cfg.weekend[1].wd) % 7) * MinPerDay
        + (cfg.weekend[2].h * MinPerHour + cfg.weekend[2].m)
        - (cfg.weekend[1].h * MinPerHour + cfg.weekend[1].m)

TouchesWeekend(cfg, s, e) ==
    TouchesWeekly(s, e, cfg.weekend[1].wd, cfg.weekend[1].h, cfg.weekend[1].m, WeeklyLen(cfg))

(* the length of a break in minutes, and whether [s, e) overlaps the break *)
(* on the UTC date of s                                                    *)
BreakLen(brk) == (brk[2].h * MinPerHour + brk[2].m) - (brk[1].h * MinPerHour + brk[1].m)

TouchesBreak(brk, s, e) ==
    LET day == (s \div MinPerDay) * MinPerDay
    IN  /\ s < day + brk[2].h * MinPerHour + brk[2].m
        /\ e > day + brk[1].h * MinPerHour + brk[1].m

----------------------------------------------------------------------------
(* Properties of the merge, checked under SpecMerge *)

(* C3: merging the same bar set a second time yields exactly the series    *)
(* obtained by merging it once (same timestamps, values and order).        *)
C3_MergeIdempotent ==
    mPc = "twice" => mSeries = mAfter1

----------------------------------------------------------------------------
(* Properties of the collector's run, checked under Spec and SpecFleet *)

(* the tasks that have started their cycle and, if they ended, whose       *)
(* gather has not returned yet                                             *)
InCycle(p) == tpc[p] \in {"loop", "done", "raised", "cancelled"}

Ended(p) == tpc[p] \in {"done", "raised"}

(* C2: whatever cycles ran and in whatever order the fetched bars came,    *)
(* every persisted series has strictly ascending (hence duplicate-free)    *)
(* timestamps.                                                             *)
C2_SeriesAscending ==
    \A p \in Pairs : file[p].exists => StrictlyAscending(file[p].rows)

(* a back-fill saved a series of three bars or more from fetched bars that *)
(* were not in ascending order                                             *)
C2_Witness ==
    \E p \in Pairs :
        /\ tpc[p] = "done"
        /\ cyc[p].path = "backfill"
        /\ cyc[p].saved
        /\ cyc[p].unsorted
        /\ Len(file[p].rows) >= 3

(* C4: when a fetch raised an unexpected error during a pair's cycle, the  *)
(* pair's stored series at the end of the cycle is the one at its start.   *)
C4_FetchErrorLeavesSeries ==
    \A p \in Pairs : (Ended(p) /\ cyc[p].fetchErr) => ~cyc[p].changed

(* C5: the cycle that follows a back-fill aborted by a fetch error finds   *)
(* the same missing range and back-fills again.                            *)
C5_AbortedBackfillRetried ==
    \A p \in Pairs :
        (InCycle(p) /\ cyc[p].prevAborted) =>
            (cyc[p].path = "backfill" /\ cyc[p].first = cyc[p].prevFirst)

(* C6: no error raised while a pair is processed stops the driver.         *)
C6_DriverNeverStops == drv # "fatal"

(* the sum of the sizes of the logged chunks *)
SumSizes(chunks) ==
    LET F[i \in 0..Len(chunks)] == IF i = 0 THEN 0 ELSE F[i - 1] + chunks[i].size
    IN  F[Len(chunks)]

(* C7: in a back-fill of N > 1 missing bars every chunk has between 1 and  *)
(* MAX_BARS bars, the first chunk starts one interval after the last       *)
(* stored bar, each next chunk starts where the previous one ended, the    *)
(* chunks issued and the bars still to go add up to N, and the loop ends   *)
(* with the sizes summing to N.                                            *)
C7_ChunksPartition ==
    \A p \in Pairs :
        (InCycle(p) /\ cyc[p].path = "backfill") =>
            LET ch == cyc[p].chunks
            IN  /\ cyc[p].N > 1
                /\ \A i \in 1..Len(ch) : 1 <= ch[i].size /\ ch[i].size <= MAX_BARS[Tf(p)]
                /\ ch # <<>> => ch[1].start = cyc[p].first
                /\ \A i \in 1..(Len(ch) - 1) :
                        ch[i + 1].start = ch[i].start + ch[i].size * Delta(p)
                /\ tpc[p] = "loop" =>
                        /\ expected_bars[p] >= 0
                        /\ SumSizes(ch) + expected_bars[p] = cyc[p].N
                        /\ chunk_start[p] = cyc[p].first + SumSizes(ch) * Delta(p)
                /\ (tpc[p] = "done" /\ ~cyc[p].aborted) => SumSizes(ch) = cyc[p].N

(* a back-fill of BigGap bars ran its loop to the end in two chunks, the   *)
(* first of MAX_BARS bars                                                  *)
C7_Witness ==
    \E p \in Pairs :
        /\ tpc[p] = "loop"
        /\ expected_bars[p] = 0
        /\ cyc[p].N = BigGap
        /\ Len(cyc[p].chunks) = 2
        /\ cyc[p].chunks[1].size = MAX_BARS[Tf(p)]
        /\ cyc[p].chunks[2].size = BigGap - MAX_BARS[Tf(p)]

(* every instant of [s, e) is scheduled unavailability of an instrument    *)
(* that is not always open                                                 *)
FullyClosed(sym, s, e, timeframe) ==
    /\ sym \notin {"btc", "eth"}
    /\ \A t \in s..(e - 1) : ScheduledUnavailable(sym, t, timeframe)

(* C8: a chunk that lies fully inside a closed window of the instrument is *)
(* skipped without a call to the provider.                                 *)
C8_ClosedChunkSkipped ==
    \A p \in Pairs :
        InCycle(p) =>
            \A i \in 1..Len(cyc[p].chunks) :
                LET e == cyc[p].chunks[i]
                IN  \/ e.how = "skipped"
                    \/ ~FullyClosed(Sym(p), e.start, e.start + e.size * Delta(p), Tf(p))

(* a bar with low <= open <= high, low <= close <= high and no negative    *)
(* price                                                                   *)
ConsistentBar(r) ==
    /\ r.l <= r.o /\ r.o <= r.h
    /\ r.l <= r.c /\ r.c <= r.h
    /\ r.l >= 0

(* C18: every bar of every persisted series is consistent, whichever path  *)
(* stored it.                                                              *)
C18_StoredBarsConsistent ==
    \A p \in Pairs : \A i \in 1..Len(file[p].rows) : ConsistentBar(file[p].rows[i])

(* C19: a failed persist leaves the file as the complete series from       *)
(* before the write or the complete series after it, never a part of it.   *)
C19_NoTornWrite ==
    \A p \in Pairs : ~cyc[p].torn

(* C20: a chunk is skipped only if every bar slot of it lies inside        *)
(* scheduled unavailability of the instrument.                             *)
C20_SkippedOnlyIfFullyClosed ==
    \A p \in Pairs :
        InCycle(p) =>
            \A i \in 1..Len(cyc[p].chunks) :
                LET e == cyc[p].chunks[i]
                IN  e.how = "skipped" =>
                        \A t \in e.start..(e.start + e.size * Delta(p) - 1) :
                            ScheduledUnavailable(Sym(p), t, Tf(p))

----------------------------------------------------------------------------
(* Properties of validate_csv, checked under SpecVal *)

(* every missing bar slot between the bars at a and b lies in scheduled    *)
(* unavailability of the instrument                                        *)
WindowClosed(sym, a, b, timeframe) ==
    \A t \in (a + INTERVAL_MINUTES[timeframe])..(b - 1) : ScheduledUnavailable(sym, t, timeframe)

(* the pairs of consecutive bars, in ascending order, that are a gap: the  *)
(* delta exceeds the slack and is under three days, the window is not      *)
(* closed and, on 1m, does not end at or before the 7-day retention        *)
(* horizon                                                                 *)
GapPairs ==
    LET df == SortValues(vDf)
        slack == INTERVAL_MINUTES[vTimeframe] * (IF vTimeframe = "1m" THEN 2 ELSE 1)
    IN  {<<df[i - 1].ts, df[i].ts>> : i \in
            {j \in 2..Len(df) :
                LET a == df[j - 1].ts
                    b == df[j].ts
                IN  /\ slack < b - a
                    /\ b - a < 3 * MinPerDay
                    /\ ~WindowClosed(vSymbol, a, b, vTimeframe)
                    /\ ~(vTimeframe = "1m" /\ b <= vNow - 7 * MinPerDay)}}

(* C15: for a series on an intraday timeframe the validator reports        *)
(* exactly the consecutive bar pairs whose delta exceeds the slack (twice  *)
(* the interval on 1m, the interval otherwise) and is under three days,    *)
(* minus the closed ones and those entirely before the retention horizon.  *)
C15_GapsReported ==
    (vPc = "done" /\ vTimeframe \in Intraday /\ vDf # <<>>) =>
        {vIssues.gaps[i] : i \in 1..Len(vIssues.gaps)} = GapPairs

(* the age beyond which a series of the timeframe is stale *)
StaleThreshold(timeframe) ==
    CASE timeframe = "1m" -> 60
      [] timeframe \in {"5m", "15m"} -> 2 * 60
      [] timeframe = "1h" -> 6 * 60
      [] timeframe = "4h" -> 12 * 60
      [] timeframe = "1d" -> 2 * MinPerDay

(* C16: the validator reports a series as stale whenever the age of its    *)
(* last bar exceeds the threshold of the timeframe and the window from the *)
(* last bar to now is not fully explained by scheduled unavailability.     *)
C16_StaleReported ==
    ( /\ vPc = "done"
      /\ vDf # <<>>
      /\ vNow - MaxDatetime(vDf) > StaleThreshold(vTimeframe)
      /\ \E t \in (MaxDatetime(vDf) + INTERVAL_MINUTES[vTimeframe])..(vNow - 1) :
            ~ScheduledUnavailable(vSymbol, t, vTimeframe) )
        => vIssues.stale

----------------------------------------------------------------------------
(* Properties of the limiter, checked under SpecLimiter *)

(* C17: at every moment of the run (initial load, start-up back-fill and   *)
(* every pass of the schedule loop) at most SemaphoreWidth = 5 tasks are   *)
(* between the start and the end of their reconciliation.                  *)
C17_InFlightBounded == Cardinality(InFlight) <= SemaphoreWidth

(* the limiter is full and a task waits for it *)
C17_Witness ==
    /\ lDrv \in {"startup", "loop"}
    /\ Cardinality(InFlight) = SemaphoreWidth
    /\ \E t \in DOMAIN lTask : lTask[t] = "waiting"

----------------------------------------------------------------------------
(* Properties of a reconciliation cycle, checked under Spec *)

(* C21: a cycle that enters the back-fill path does not run the single-bar *)
(* update in the same cycle, whatever its chunks returned (bars, an empty  *)
(* frame, skipped as closed, or no data); cycles in which a fetch or a     *)
(* write raised are left aside.                                            *)
C21_BackfillExcludesSingle ==
    \A p \in Pairs :
        (Ended(p) /\ cyc[p].path = "backfill" /\ ~cyc[p].aborted /\ faults = 0)
            => ~cyc[p].single

----------------------------------------------------------------------------
(* Further properties of the merge, checked under SpecMerge *)

(* the rows a and b carry the same prices *)
SamePrices(a, b) == a.o = b.o /\ a.h = b.h /\ a.l = b.l /\ a.c = b.c

(* C22: the merge is last-write-wins on the timestamp: when a newly        *)
(* fetched, structurally valid bar (initial load or back-fill) has a       *)
(* timestamp the series already holds, the stored bar after the merge      *)
(* carries the prices of the newly fetched bar (of the last one fetched    *)
(* with that timestamp).                                                   *)
C22_LastWriteWins ==
    mPc = "once" =>
        \A i \in 1..Len(mBars) :
            ( /\ ~BadRow(mBars[i])
              /\ mBars[i].ts \in DatetimesOf(mOrig)
              /\ \A j \in (i + 1)..Len(mBars) : mBars[j].ts # mBars[i].ts )
                => \E k \in 1..Len(mAfter1) :
                      mAfter1[k].ts = mBars[i].ts /\ SamePrices(mAfter1[k], mBars[i])

----------------------------------------------------------------------------
(* Further properties of closed_window, checked under SpecCW *)

(* start as closed_window normalises it: a naive datetime is taken as UTC *)
NormStart == IF cwStart.aware THEN cwStart ELSE ReplaceTzUtc(cwStart)

(* the start of the weekly closure that closed_window tests the call       *)
(* against; the call's start where the instrument has no weekly closure    *)
ClosureStartUsed ==
    IF cwSym \in DOMAIN symbol_map
    THEN AsTimezone(WeekendStart(SESSIONS[symbol_map[cwSym]], NormStart), 0)
    ELSE IF Cardinality(get_symbol_currencies(cwSym)) = 2 THEN FxFallbackStart(NormStart)
    ELSE NormStart

(* C23: the weekly closure that closed_window tests starts at or before    *)
(* start and less than a week before it: it is the most recent closure     *)
(* start that is <= start, in the profile branch and in the fallback.      *)
C23_ClosureStartsAtOrBeforeStart ==
    cwPc # "input" =>
        /\ ClosureStartUsed.inst <= NormStart.inst
        /\ NormStart.inst - ClosureStartUsed.inst < MinPerWeek

----------------------------------------------------------------------------
(* Further properties of validate_csv, checked under SpecVal *)

(* the candidate gaps of the series within retention: consecutive bars, in *)
(* ascending order, whose delta exceeds the slack and is under three days, *)
(* and which on 1m end after the 7-day retention horizon                   *)
CandidateGaps ==
    LET df == SortValues(vDf)
        slack == INTERVAL_MINUTES[vTimeframe] * (IF vTimeframe = "1m" THEN 2 ELSE 1)
    IN  {<<df[i - 1].ts, df[i].ts>> : i \in
            {j \in 2..Len(df) :
                LET d == df[j].ts - df[j - 1].ts
                IN  /\ slack < d
                    /\ d < 3 * MinPerDay
                    /\ ~(vTimeframe = "1m" /\ df[j].ts <= vNow - 7 * MinPerDay)}}

(* an instrument that is always open: crypto, or a key with neither a      *)
(* session profile nor two currencies                                      *)
AlwaysOpen(sym) ==
    \/ sym \in {"btc", "eth"}
    \/ sym \notin DOMAIN symbol_map /\ Cardinality(get_symbol_currencies(sym)) # 2

(* C24: for an always-open instrument, and for one with no profile and no  *)
(* fallback class, the validator reports every candidate gap of an         *)
(* intraday series; none is hidden.                                        *)
C24_AlwaysOpenGapsReported ==
    (vPc = "done" /\ AlwaysOpen(vSymbol) /\ vTimeframe \in Intraday /\ vDf # <<>>) =>
        CandidateGaps \subseteq {vIssues.gaps[i] : i \in 1..Len(vIssues.gaps)}

----------------------------------------------------------------------------
(* Properties of the status mirror, checked under SpecFleet *)

(* a step in which _save_status runs: run and continuous_update_loop call  *)
(* it right after initial_load and after each gather                       *)
SaveStatusStep ==
    \/ statusDisk' # statusDisk
    \/ drv = "initial_load" /\ drv' = "startup"
    \/ drv \in {"startup", "batch"} /\ drv' \in {"loop", "sleep"}

(* C25: the on-disk mirror of the status map is written only after a       *)
(* completed batch: never while a task of the current batch is still to    *)
(* start or in flight.                                                     *)
C25_StatusSavedAfterBatch ==
    [][SaveStatusStep => (queue = <<>> /\ \A p \in Pairs : tpc[p] \notin {"queued", "loop"})]_vars

(* after a pass of the schedule loop the mirror holds the marks of both    *)
(* pairs, one of them set in that pass                                     *)
C25_Witness ==
    /\ drv = "sleep"
    /\ ticks >= 1
    /\ \A p \in Pairs : statusDisk[p] >= 0
    /\ \E p \in Pairs : statusDisk[p] = now

----------------------------------------------------------------------------
(* Further properties of a reconciliation cycle, checked under Spec *)

(* the chunk the step has just logged for p, if it logged one *)
LoggedChunk(p) == Len(cyc'[p].chunks) = Len(cyc[p].chunks) + 1 /\ tpc[p] = "loop"

(* the provider answered a chunk of the cycle with its no-data signal *)
HadNoData(c) == \E i \in 1..Len(c.chunks) : c.chunks[i].ans = "missing"

(* C26: the provider's no-data signal on a chunk of a back-fill is not     *)
(* fatal: the remaining count goes down by the chunk size, the cursor      *)
(* moves to the chunk end, the loop goes on with what it had accumulated,  *)
(* and when the cycle ends without a fetch error or a failed write the     *)
(* bars accumulated from the other chunks are in the series.               *)
C26_NoDataChunkContinues ==
    [][\A p \in Pairs :
          /\ (LoggedChunk(p) /\ cyc'[p].chunks[Len(cyc'[p].chunks)].ans = "missing") =>
                LET e == cyc'[p].chunks[Len(cyc'[p].chunks)]
                IN  /\ tpc'[p] = "loop"
                    /\ expected_bars'[p] = expected_bars[p] - e.size
                    /\ chunk_start'[p] = e.start + e.size * Delta(p)
                    /\ all_new_data'[p] = all_new_data[p]
          /\ ( /\ tpc[p] = "loop"
               /\ tpc'[p] = "done"
               /\ HadNoData(cyc'[p])
               /\ ~cyc'[p].aborted
               /\ faults' = faults ) =>
                DatetimesOf(all_new_data[p]) \subseteq DatetimesOf(file'[p].rows)
      ]_vars

(* a back-fill whose first chunk got the no-data signal and whose second   *)
(* chunk was fetched has saved the series with the fetched bars            *)
C26_Witness ==
    \E p \in Pairs :
        /\ tpc[p] = "done"
        /\ cyc[p].path = "backfill"
        /\ Len(cyc[p].chunks) = 2
        /\ cyc[p].chunks[1].ans = "missing"
        /\ cyc[p].chunks[2].how = "fetched"
        /\ cyc[p].saved
        /\ ~cyc[p].single
        /\ Len(file[p].rows) >= 2

(* floor((now - last_timestamp) / interval) for the series stored for p *)
ExpectedMissing(p) ==
    (now - file[p].rows[Len(file[p].rows)].ts) \div Delta(p)

(* C27: a cycle that finds no stored series runs only the bootstrap (the   *)
(* latest-bar fetch, no chunk); one that finds a non-empty series with     *)
(* floor((now - last) / interval) <= 1 runs only the incremental path (no  *)
(* chunk); chunks are fetched only in a cycle that found that count > 1.   *)
C27_PathSelection ==
    [][\A p \in Pairs :
          /\ (tpc[p] = "queued" /\ tpc'[p] # "queued") =>
                /\ ~file[p].exists =>
                      /\ cyc'[p].path = "bootstrap"
                      /\ cyc'[p].single
                /\ (file[p].exists /\ file[p].rows # <<>> /\ ExpectedMissing(p) <= 1) =>
                      /\ cyc'[p].path = "incremental"
                      /\ cyc'[p].single
                /\ cyc'[p].path = "backfill" =>
                      /\ file[p].exists
                      /\ file[p].rows # <<>>
                      /\ ExpectedMissing(p) > 1
          /\ cyc'[p].path # "backfill" => (cyc'[p].chunks = <<>> /\ cyc'[p].calls = 0)
      ]_vars

(* an incremental cycle on a series one bar behind has stored the latest   *)
(* bar                                                                     *)
C27_Witness ==
    \E p \in Pairs :
        /\ tpc[p] = "done"
        /\ cyc[p].path = "incremental"
        /\ cyc[p].saved
        /\ cyc[p].chunks = <<>>
        /\ Len(file[p].rows) >= 2

(* C28: on the incremental path, when the latest closed bar that was       *)
(* fetched has a timestamp the series already holds, the cycle changes     *)
(* neither the stored series nor the pair's mark in the status map.        *)
C28_StoredBarIsNoOp ==
    \A p \in Pairs :
        (Ended(p) /\ cyc[p].path = "incremental" /\ cyc[p].dup)
            => (~cyc[p].changed /\ ~cyc[p].saved)

(* an incremental cycle has fetched a bar whose timestamp the series held *)
C28_Witness ==
    \E p \in Pairs :
        /\ tpc[p] = "done"
        /\ cyc[p].path = "incremental"
        /\ cyc[p].dup
        /\ ~cyc[p].fetchErr
        /\ file[p].rows # <<>>

----------------------------------------------------------------------------
(* Specification SpecBreak: the daily-break test of closed_window, lines   *)
(* 99-119, applied to a profile whose break crosses midnight.  No profile  *)
(* of SESSIONS has such a break today; the profile format allows it and    *)
(* the code computes the length of a break modulo 24 hours for it.         *)

WrapBreak == <<[h |-> 23, m |-> 0], [h |-> 1, m |-> 0]>>

WrapProfile ==
    [timezone |-> 0,
     weekend |-> <<[wd |-> Fri, h |-> 22, m |-> 0], [wd |-> Sun, h |-> 22, m |-> 0]>>,
     daily_breaks |-> <<WrapBreak>>]

(* the calls start on BDays consecutive days from Monday 2024-12-23 *)
BDays == 2

(* every ten minutes from 22:40 to 01:10 *)
BStarts ==
    {(7 + d) * MinPerDay + 22 * MinPerHour + 40 + 10 * k : d \in 0..(BDays - 1), k \in 0..15}

BDurations == {10, 40, 60, 120, 180}

InitBreak ==
    /\ MIdle
    /\ ColIdle
    /\ VIdle
    /\ LIdle
    /\ cwPc = "break input"
    /\ cwSym = "eurusd"
    /\ cwTf \in CWTimeframes
    /\ \E s \in BStarts, d \in BDurations, aw \in BOOLEAN :
          /\ cwStart = (IF aw THEN Aware(s, 0) ELSE Naive(s))
          /\ cwEnd = Aware(s + d, 0)
    /\ cwResult = FALSE
    /\ cwStartAlt = cwStart
    /\ cwEndAlt = cwEnd
    /\ cwResultAlt = FALSE

(* the loop body of lines 99-119 for the one break of the profile, on the  *)
(* normalised start and end                                                *)
BreakCall ==
    /\ cwPc = "break input"
    /\ cwResult' = BreakClosed(WrapProfile, WrapBreak,
                               IF cwStart.aware THEN cwStart ELSE ReplaceTzUtc(cwStart),
                               IF cwEnd.aware THEN cwEnd ELSE ReplaceTzUtc(cwEnd), cwTf)
    /\ cwPc' = "break called"
    /\ UNCHANGED <<cwSym, cwStart, cwEnd, cwTf, cwStartAlt, cwEndAlt, cwResultAlt>>
    /\ UNCHANGED <<mVars, colVars, vVars, lVars>>

NextBreak == BreakCall

SpecBreak == InitBreak /\ [][NextBreak]_vars

(* the length of a break that may end on the following day *)
WrappedLen(brk) == BreakLen(brk) % MinPerDay

(* minutes from the latest start of the break to the instant t *)
SinceBreakStart(brk, t) == (t - (brk[1].h * MinPerHour + brk[1].m)) % MinPerDay

(* [s, e) lies inside one occurrence of the break, taken as ending on the  *)
(* following day when its end time is earlier than its start time          *)
InsideBreak(brk, s, e) ==
    /\ s < e
    /\ SinceBreakStart(brk, s) + (e - s) <= WrappedLen(brk)

----------------------------------------------------------------------------
(* The closure windows of a call of closed_window, checked under SpecCW *)

NormEnd == IF cwEnd.aware THEN cwEnd ELSE ReplaceTzUtc(cwEnd)

(* the weekly closure [ws, we) the call is tested against, as instants *)
WeeklyWindow(cfg) ==
    LET ws == ClosureStartUsed.inst
        span == (cfg.weekend[2].wd - cfg.weekend[1].wd) % 7
    IN  [ws |-> ws,
         we |-> (ws \div MinPerDay + span) * MinPerDay
                    + cfg.weekend[2].h * MinPerHour + cfg.weekend[2].m]

(* the break [db_start, db_end) on the date of start, as instants *)
BreakWindow(brk) ==
    LET day == NormStart.inst \div MinPerDay
    IN  [ws |-> day * MinPerDay + brk[1].h * MinPerHour + brk[1].m,
         we |-> day * MinPerDay + brk[2].h * MinPerHour + brk[2].m]

(* the windows the call is tested against: the weekly closure and the      *)
(* breaks not skipped for the timeframe, or the closure of the fallback    *)
TestedWindows ==
    IF cwSym \in DOMAIN symbol_map
    THEN LET cfg == SESSIONS[symbol_map[cwSym]]
         IN  {WeeklyWindow(cfg)}
                \cup {BreakWindow(cfg.daily_breaks[i]) : i \in
                        {j \in 1..Len(cfg.daily_breaks) :
                            cwTf = "None" \/ tf_minutes(cwTf) <= BreakLen(cfg.daily_breaks[j])}}
    ELSE IF Cardinality(get_symbol_currencies(cwSym)) = 2
         THEN {[ws |-> ClosureStartUsed.inst, we |-> ClosureStartUsed.inst + 2 * MinPerDay]}
         ELSE {}

(* the interval ends exactly at the window's start or starts exactly at    *)
(* its end                                                                 *)
Touches(w) == NormEnd.inst = w.ws \/ NormStart.inst = w.we

(* the interval ends before the window or starts after it *)
Apart(w) == NormEnd.inst < w.ws \/ NormStart.inst > w.we

(* C30: every overlap test of closed_window is half-open: an interval that *)
(* ends exactly at a closure window's start, or starts exactly at its end, *)
(* is not classified closed because of that window; a closed verdict comes *)
(* from a window the interval neither touches nor lies apart from (weekly  *)
(* closure, daily break and fallback alike).                               *)
C30_HalfOpenOverlap ==
    (cwPc # "input" /\ cwResult) =>
        \E w \in TestedWindows : ~Touches(w) /\ ~Apart(w)

(* an interval touching one of its closure windows was classified open *)
C30_Witness ==
    /\ cwPc # "input"
    /\ ~cwResult
    /\ \E w \in TestedWindows : Touches(w)

----------------------------------------------------------------------------
(* The gap report of validate_csv, checked under SpecVal *)

(* the candidate gaps that remain after the closed windows and the         *)
(* holidays are taken out                                                  *)
RemainingCandidates ==
    {g \in CandidateGaps :
        /\ ~closed_window(vSymbol, Aware(g[1], 0), Aware(g[2], 0), vTimeframe)
        /\ ~is_holiday(Aware(g[1], 0), vSymbol)}

(* the number of gap lines a report may list *)
MaxShown == 5

(* C31: the gap report lists at most the first 5 gaps, in the order of the *)
(* series, together with the total number of gaps found; with more than 5  *)
(* gaps the total is still the number of all the remaining candidates.     *)
C31_GapReportCapped ==
    (vPc = "done" /\ vTimeframe \in Intraday /\ vSymbol \notin {"btc", "eth"} /\ vDf # <<>>) =>
        /\ Len(vIssues.shown) <= MaxShown
        /\ Len(vIssues.shown) = (IF vIssues.count <= MaxShown THEN vIssues.count ELSE MaxShown)
        /\ \A i \in 1..Len(vIssues.shown) : vIssues.shown[i] \in RemainingCandidates
        /\ \A i \in 1..(Len(vIssues.shown) - 1) : vIssues.shown[i][2] <= vIssues.shown[i + 1][1]
        /\ \A g \in RemainingCandidates :
              (\A i \in 1..Len(vIssues.shown) : vIssues.shown[i] # g) =>
                  /\ Len(vIssues.shown) = MaxShown
                  /\ vIssues.shown[MaxShown][2] <= g[1]
        /\ vIssues.count = Cardinality(RemainingCandidates)

(* a report of more than five gaps *)
C31_Witness ==
    /\ vPc = "done"
    /\ vIssues.count > MaxShown
    /\ Len(vIssues.shown) = MaxShown

----------------------------------------------------------------------------
(* Termination of the back-fill loop.  SpecTerm is Spec with the event     *)
(* loop's scheduling: a task that sleeps between two chunks of its         *)
(* back-fill (asyncio.sleep, lines 626, 647, 682) is resumed.              *)

SpecTerm ==
    /\ Init
    /\ [][Next]_vars
    /\ \A p \in Pairs : WF_vars(ChunkStep(p))

(* the pair p is inside the loop of lines 605-685 with bars remaining *)
InBackfillLoop(p) == tpc[p] = "loop" /\ expected_bars[p] > 0

(* one pass of the loop by p that stays in the loop: the remaining count   *)
(* falls by the chunk size, which is at least 1, not below 0, and the      *)
(* cursor moves forward                                                    *)
LoopPass(p) ==
    (InBackfillLoop(p) /\ cyc'[p] # cyc[p] /\ tpc'[p] = "loop") =>
        /\ expected_bars'[p] < expected_bars[p]
        /\ expected_bars'[p] >= 0
        /\ expected_bars[p] - expected_bars'[p] >= 1
        /\ chunk_start'[p] > chunk_start[p]
        /\ chunk_start'[p] - chunk_start[p] = (expected_bars[p] - expected_bars'[p]) * Delta(p)

(* C32: the back-fill loop terminates for every expected_missing > 1 and   *)
(* every sequence of chunk outcomes: on every iteration the remaining      *)
(* count strictly decreases by a chunk size >= 1 and the cursor strictly   *)
(* advances, until the remaining count is 0 or an error aborts the loop.   *)
C32_BackfillTerminates ==
    /\ [][\A p \in Pairs : LoopPass(p)]_vars
    /\ \A p \in Pairs : InBackfillLoop(p) ~> ~InBackfillLoop(p)

(* a back-fill of more bars than one chunk holds is in its second pass *)
C32_Witness ==
    \E p \in Pairs :
        /\ InBackfillLoop(p)
        /\ Len(cyc[p].chunks) = 1
        /\ cyc[p].N > MAX_BARS[Tf(p)]

----------------------------------------------------------------------------
(* The series is append-only for valid bars, checked under SpecMerge *)

(* the row r is in the frame df, with its Datetime and prices *)
Holds(df, r) == \E k \in 1..Len(df) : df[k].ts = r.ts /\ SamePrices(df[k], r)

(* C33: a merge removes only bars that have a duplicate timestamp or are   *)
(* structurally invalid: every valid bar that was stored, and every valid  *)
(* fetched bar with a new timestamp, is in the series after the merge.     *)
C33_MergeKeepsValidBars ==
    mPc = "once" =>
        /\ \A i \in 1..Len(mOrig) :
              (~BadRow(mOrig[i]) /\ mOrig[i].ts \notin DatetimesOf(mBars))
                  => Holds(mAfter1, mOrig[i])
        /\ \A i \in 1..Len(mBars) :
              ( /\ ~BadRow(mBars[i])
                /\ mBars[i].ts \notin DatetimesOf(mOrig)
                /\ \A j \in 1..Len(mBars) : j # i => mBars[j].ts # mBars[i].ts )
                  => Holds(mAfter1, mBars[i])

----------------------------------------------------------------------------
(* The currency exposure of an instrument, checked under SpecCW *)

(* the keys of _generate_symbols among the modelled ones *)
RegisteredKeys == {"eurusd", "gold", "copper", "spy", "btc", "eth"}

(* C34: the currency exposure of every registered instrument key is the    *)
(* same set in the collector, in closed_window and in the validator, so    *)
(* the holiday decision for an instrument on a date is the same when       *)
(* fetching and when validating; six-letter non-forex keys included.       *)
C34_SameCurrencyExposure ==
    (cwPc # "input" /\ cwSym \in RegisteredKeys) =>
        /\ CollectorCurrencies(cwSym) = get_symbol_currencies(cwSym)
        /\ IsHolidayNow(NormStart.inst, cwSym) <=> is_holiday(NormStart, cwSym)

----------------------------------------------------------------------------
(* The marker of a pair and its series, checked under Spec *)

(* the step ends a cycle of update_symbol_timeframe for the pair p *)
CycleEnds(p) == tpc[p] \in {"queued", "loop"} /\ tpc'[p] \in {"done", "raised"}

(* the step leaves the file of p with a bar whose Datetime it did not hold *)
GainsBar(p) ==
    /\ file'[p].exists
    /\ DatetimesOf(file'[p].rows) \ DatetimesOf(file[p].rows) # {}

(* a step of the update gathers changes a marker only where it ends a      *)
(* cycle of the pair that wrote a new bar                                  *)
MarkerStep ==
    drv \in {"startup", "batch"} =>
        \A p \in Pairs : (status'[p] # status[p]) => (CycleEnds(p) /\ GainsBar(p))

(* C35: in update_symbol_timeframe the marker of a pair changes only in a  *)
(* cycle of that pair in which its series file was written with at least   *)
(* one new bar; a cycle that leaves the series unchanged leaves the marker *)
(* of the pair, and the markers of all other pairs, unchanged.             *)
C35_MarkerFollowsWrite == [][MarkerStep]_vars

(* a cycle over a stored series ended with the marker set *)
C35_Witness ==
    \E p \in Pairs :
        /\ tpc[p] = "done"
        /\ cyc[p].path \in {"backfill", "incremental"}
        /\ cyc[p].saved
        /\ status[p] = now

----------------------------------------------------------------------------
(* The permits of the limiter.  SpecLimiterLive is SpecLimiter with the    *)
(* event loop's scheduling: a task that can take a step takes it, and a    *)
(* fetch, once begun, returns or raises.                                   *)

SpecLimiterLive ==
    /\ InitLimiter
    /\ [][NextLimiter]_vars
    /\ \A t \in 1..LTasks :
          /\ WF_vars(LStart(t))
          /\ WF_vars(LLoadEnd(t))
          /\ WF_vars(LResume(t))
          /\ WF_vars(LRelease(t) \/ LRaise(t) \/ LYield(t))
          /\ WF_vars(LWake(t))
    /\ WF_vars(LGatherDone)
    /\ WF_vars(LGatherRaise)

(* the tasks that hold a permit *)
Holders == {t \in DOMAIN lTask : lDrv # "initial" /\ lTask[t] \in {"running", "sleeping", "resumed"}}

(* every task of the gather has returned *)
BatchComplete == \A t \in DOMAIN lTask : lTask[t] = "done"

(* the permits not held are available, and all of them after a batch *)
PermitsConserved ==
    /\ lSem + Cardinality(Holders) = SemaphoreWidth
    /\ BatchComplete => lSem = SemaphoreWidth

(* C36: the limiter never leaks a permit and never deadlocks: a task that  *)
(* acquired releases when its update returns or raises, every task of a    *)
(* batch eventually acquires, given that fetches terminate, and after a    *)
(* batch completes all 5 permits are available again.                      *)
C36_NoLeakNoDeadlock ==
    /\ []PermitsConserved
    /\ \A t \in 1..LTasks :
          (lDrv \in {"startup", "loop"} /\ lTask[t] \in {"new", "waiting"})
              ~> (lTask[t] \in {"running", "sleeping", "resumed", "done", "raised"})

----------------------------------------------------------------------------
(* The fan-out of the schedule loop, checked under SpecDriver *)

(* the step is one pass of the schedule loop *)
LoopPassStep == drv = "loop" /\ drv' \in {"batch", "sleep"}

(* the tasks of the timeframe t that the pass puts in its gather *)
FannedOut(t) == {i \in 1..Len(queue') : queue'[i][2] = t}

(* the pass finds the timeframe t due and skips it for the weekend *)
WeekendSkip(t) ==
    /\ now >= next_updates[t]
    /\ ((now \div MinPerDay) % 7) \in {5, 6}
    /\ t \in {"1m", "5m", "15m", "1h", "4h"}

FanOutStep ==
    LoopPassStep =>
        \A t \in Range(CollectorTimeframes) :
            /\ FannedOut(t) # {} <=> (now >= next_updates[t] /\ ~WeekendSkip(t))
            /\ FannedOut(t) # {} =>
                  /\ next_updates'[t] = next_updates[t] + EXPECTED_DELTA[t]
                  /\ \A k \in 1..Len(symbols) :
                        Cardinality({i \in FannedOut(t) : queue'[i][1] = symbols[k]}) = 1
                  /\ Cardinality(FannedOut(t)) = Len(symbols)
            /\ FannedOut(t) = {} => next_updates'[t] = next_updates[t]
            /\ WeekendSkip(t) => (FannedOut(t) = {} /\ next_updates'[t] = next_updates[t])

----------------------------------------------------------------------------
(* Holidays and the single-bar fetch, checked under Spec *)

(* the UTC date of t is a holiday of a currency of the instrument *)
HolidayFor(symbol_key, t) ==
    \E c \in CollectorCurrencies(symbol_key) :
        c \in DOMAIN HOLIDAY_CALENDARS /\ (t \div MinPerDay) \in HOLIDAY_CALENDARS[c]

(* C38: fetch_latest_bar issues no provider request when the current UTC   *)
(* date is a holiday of a currency in the instrument's exposure, the       *)
(* always-open instruments with a USD exposure included, and a bootstrap   *)
(* or incremental cycle run on such a date leaves the series and the       *)
(* marker unchanged.                                                       *)
C38_HolidayNoFetch ==
    \A p \in Pairs :
        ( /\ Ended(p)
          /\ cyc[p].path \in {"bootstrap", "incremental"}
          /\ HolidayFor(Sym(p), now) )
            => /\ ~cyc[p].asked
               /\ ~cyc[p].changed
               /\ ~cyc[p].saved
               /\ tpc[p] = "done"

(* an incremental cycle of the always-open instrument has run on a holiday *)
(* of its currency                                                         *)
C38_Witness ==
    \E p \in Pairs :
        /\ Sym(p) = "btc"
        /\ tpc[p] = "done"
        /\ cyc[p].path = "incremental"
        /\ HolidayFor("btc", now)

====
